---- MODULE Spec2Model ----
(***************************************************************************)
(* A model of VoxFetch-CESI: the cookie based Auth Detector, the Catalog   *)
(* Prober (checkBookStatus), the whole-book orchestration (downloadBook)   *)
(* and the single-page capture (printScholarVoxPageToPDF) with its Render  *)
(* Stabilizer.                                                             *)
(*                                                                         *)
(* Strings are finite sequences of atoms (lexemes): a cookie name          *)
(* "sfsessid_v2" is <<"sfsessid", "_v2">>.  The string operations of the   *)
(* code (startsWith, includes, toLowerCase, trim, slice) are computed on   *)
(* these sequences.  Fractions are pairs <<numerator, denominator>> kept   *)
(* in lowest terms; IEEE rounding of the JavaScript doubles is not         *)
(* modelled.                                                               *)
(***************************************************************************)
EXTENDS Integers, Sequences, FiniteSets, TLC

VARIABLES
    \* ---- Auth Detector -------------------------------------------------
    cookies,      \* the browser context's cookie jar, in jar order
    apc,          \* "jar" while the jar fills, "detected" after a detection
    authRes,      \* the AuthCheck returned by the last detection
    \* ---- Catalog Prober ------------------------------------------------
    remote,       \* what the catalog URL currently serves
    pg,           \* the Playwright Page handed to checkBookStatus
    inspected,    \* the DOM queries the last run has made
    runNo,        \* how many runs have finished: 0, 1 or 2
    statuses,     \* the BookStatus returned by each finished run
    served,       \* the remote page as it was during each finished run
    changed,      \* whether the remote page has changed between the runs
    \* ---- the iframe-content page ---------------------------------------
    dom,          \* the DOM of the iframe-content page now
    \* ---- downloadBook --------------------------------------------------
    dpc,          \* position inside downloadBook
    browser,      \* "none", "open" or "closed"
    iframePages,  \* every iframe-content page opened so far: "open", or
                  \* "closed" once close() was called on it or on the browser
    counts,       \* the page counts read from #page-container, in order
    reloads,      \* how often the iframe URL was loaded again after a zero count
    totalPages,
    idx,          \* the loop variable i of the scroll loop
    scrolled,     \* the page indices scrolled into view, in order
    steps,        \* the stages completed after the scroll loop, in order
    dims,         \* the detected pixel size
    pdfCalls,     \* the options of every iframePage.pdf call, in order
    fsOps,        \* the file system operations done, in order
    err,          \* the message of the error thrown, "" if none
    \* ---- printScholarVoxPageToPDF --------------------------------------
    ppc,          \* position inside printScholarVoxPageToPDF
    scaleArg,     \* the scale argument (0.4 when omitted)
    iframePage,   \* "none", "open", or "closed" once close() was called on it
    attempts,     \* the Render Stabilizer's countdown
    cand,         \* the candidate the last attempt examined
    renderInfo,   \* the Render Stabilizer's result
    pageDimensions,
    autoScale,
    printCalls,   \* the options of every iframePage.pdf call, in order
    warnings,     \* the warnings logged
    pending,      \* "" or the exception travelling to the outer catch
    result,       \* "none", "null" or "buffer"
    \* ---- loginCESI -----------------------------------------------------
    cpc,          \* position inside loginCESI
    pageUrl,      \* page.url(): the last URL the login page was seen at
    submitVia,    \* "none", "click" or "enter"
    thrown,       \* the error loginCESI is throwing, NoError if none
    \* ---- performInteractiveLogin and waitAndDetectAuth -----------------
    lpc,          \* position inside performInteractiveLogin
    wpc,          \* position inside the running waitAndDetectAuth call
    docidGiven,   \* whether docidForAuthCheck was passed
    elapsed,      \* whether Date.now() - start has reached timeoutMs
    cycles,       \* the poll cycles started
    polls,        \* the polls of the running waitAndDetectAuth call
    jarRead,      \* the cookies returned by the latest cookies() call
    authCalls,    \* every waitAndDetectAuth call made, in order
    loginResult,  \* the AuthCheck performInteractiveLogin returned
    \* ---- main ----------------------------------------------------------
    mpc,          \* position inside main
    docid,        \* the trimmed answer to "Enter book ID: "
    vstatus,      \* the status checkBookStatus gave validateBook, or "none"
    isValid,      \* what validateBook returned: "none", "true", "false", "rejected"
    exitCode,     \* -1 while the process runs, then its exit code
    \* ---- which entry point runs ----------------------------------------
    entry

authVars  == <<cookies, apc, authRes>>
probeVars == <<remote, pg, inspected, runNo, statuses, served, changed>>
printVars == <<ppc, scaleArg, iframePage, attempts, cand, renderInfo,
               pageDimensions, autoScale, printCalls, warnings, pending, result>>
bookVars  == <<dpc, browser, iframePages, counts, reloads, totalPages, idx,
               scrolled, steps, dims, pdfCalls, fsOps, err>>

cesiVars  == <<cpc, pageUrl, submitVia, thrown>>
loginVars == <<lpc, wpc, docidGiven, elapsed, cycles, polls, jarRead, authCalls,
               loginResult>>
mainVars  == <<mpc, docid, vstatus, isValid, exitCode>>

vars == <<authVars, probeVars, dom, bookVars, printVars, cesiVars, loginVars,
          mainVars, entry>>

\* Each entry point runs alone: what the others own stays as it is.
AuthFrame ==
    /\ entry = "detectAuthFromCookies"
    /\ UNCHANGED <<probeVars, dom, bookVars, printVars, cesiVars, loginVars,
                   mainVars, entry>>

ProbeFrame ==
    /\ entry = "checkBookStatus"
    /\ UNCHANGED <<authVars, dom, bookVars, printVars, cesiVars, loginVars,
                   mainVars, entry>>

\* downloadBook runs on its own or as the last call of main
BookFrame ==
    /\ \/ entry = "downloadBook"
       \/ entry = "main" /\ mpc = "downloadBook"
    /\ UNCHANGED <<authVars, probeVars, printVars, cesiVars, loginVars,
                   mainVars, entry>>

PrintFrame ==
    /\ entry = "printScholarVoxPageToPDF"
    /\ UNCHANGED <<authVars, probeVars, bookVars, cesiVars, loginVars,
                   mainVars, entry>>

CesiFrame ==
    /\ entry = "loginCESI"
    /\ UNCHANGED <<authVars, probeVars, dom, bookVars, printVars, loginVars,
                   mainVars, entry>>

LoginFrame ==
    /\ entry = "performInteractiveLogin"
    /\ UNCHANGED <<probeVars, dom, bookVars, printVars, cesiVars, mainVars,
                   apc, entry>>

MainFrame ==
    /\ entry = "main"
    /\ UNCHANGED <<authVars, probeVars, dom, bookVars, printVars, cesiVars,
                   loginVars, entry>>

-----------------------------------------------------------------------------
(* Strings                                                                 *)

\* String.prototype.toLowerCase on one atom.
LowerAtom(a) ==
    CASE a = "SFSESSID" -> "sfsessid"
      [] a = "SfSessId" -> "sfsessid"
      [] a = "_XPRIV" -> "_xpriv"
      [] a = "PostHog" -> "posthog"
      [] a = "Visitor_Unique" -> "visitor_unique"
      [] a = "ERROR" -> "error"
      [] a = "Not" -> "not"
      [] a = "Found" -> "found"
      [] a = "Cet ouvrage sera bientot disponible" -> "cet ouvrage sera bientot disponible"
      [] a = "CET OUVRAGE SERA BIENTOT DISPONIBLE" -> "cet ouvrage sera bientot disponible"
      [] a = "Cet ouvrage n'est plus disponible" -> "cet ouvrage n'est plus disponible"
      [] OTHER -> a

toLowerCase(s) == [i \in 1..Len(s) |-> LowerAtom(s[i])]

startsWith(s, p) == Len(p) <= Len(s) /\ SubSeq(s, 1, Len(p)) = p

endsWith(s, p) == Len(p) <= Len(s) /\ SubSeq(s, Len(s) - Len(p) + 1, Len(s)) = p

includes(s, p) ==
    \E i \in 0..(Len(s) - Len(p)) : SubSeq(s, i + 1, i + Len(p)) = p

-----------------------------------------------------------------------------
(* Auth Detector                                                           *)

MaxCookies == 2

CookieNames ==
    { <<"SFSESSID">>, <<"sfsessid", "_v2">>, <<"SfSessId">>,
      <<"x_", "sfsessid">>,
      <<"_xpriv", "1">>, <<"ph_", "posthog">>, <<"visitor_unique">>,
      <<"other">> }

CookieDomains ==
    { <<".", "scholarvox.com">>, <<"univ", ".", "scholarvox.com">>,
      <<"scholarvox.com">>,
      <<"scholarvox.com", ".", "example.net">>,
      <<"idp", ".", "example.net">> }

Cookie == [name : CookieNames, domain : CookieDomains]

NoAuth == [authenticated |-> FALSE, note |-> "none", matched |-> <<>>]

normalizeDomain(d) == IF startsWith(d, <<".">>) THEN SubSeq(d, 2, Len(d)) ELSE d

\* /^sfsessid/i, /^_xpriv/i, /posthog/i, /visitor_unique/i
isSessionName(n) == startsWith(toLowerCase(n), <<"sfsessid">>)
isXprivName(n) == startsWith(toLowerCase(n), <<"_xpriv">>)
isPosthogName(n) == includes(toLowerCase(n), <<"posthog">>)
isVisitorName(n) == includes(toLowerCase(n), <<"visitor_unique">>)

\* Array.prototype.filter
RECURSIVE filterSvx(_)
filterSvx(all) ==
    IF all = <<>> THEN <<>>
    ELSE LET c == Head(all)
             rest == filterSvx(Tail(all))
         IN  IF includes(normalizeDomain(c.domain), <<"scholarvox.com">>)
             THEN <<c>> \o rest
             ELSE rest

\* the matched list: name@domain of every session cookie of svx, in order
RECURSIVE matchedOf(_)
matchedOf(svx) ==
    IF svx = <<>> THEN <<>>
    ELSE LET c == Head(svx)
             rest == matchedOf(Tail(svx))
         IN  IF isSessionName(c.name)
             THEN <<c.name \o <<"@">> \o normalizeDomain(c.domain)>> \o rest
             ELSE rest

\* A detector that asks for a diagnostic signal beside the session cookie.
detectAuthNeedsSignal(all) ==
    LET svx == filterSvx(all)
        hasSession == \E i \in 1..Len(svx) : isSessionName(svx[i].name)
        hasXpriv == \E i \in 1..Len(svx) : isXprivName(svx[i].name)
        hasPosthog == \E i \in 1..Len(svx) : isPosthogName(svx[i].name)
        hasVisitor == \E i \in 1..Len(svx) : isVisitorName(svx[i].name)
        authenticated == hasSession /\ (hasXpriv \/ hasPosthog \/ hasVisitor)
    IN  [authenticated |-> authenticated,
         note |-> IF authenticated THEN "Authenticated via SFSESSID + signal."
                  ELSE "Not authenticated: missing SFSESSID on scholarvox.com.",
         matched |-> IF hasSession THEN matchedOf(svx) ELSE <<>>]

detectAuthFromCookies(all) ==
    LET svx == filterSvx(all)
        hasSession == \E i \in 1..Len(svx) : isSessionName(svx[i].name)
        hasXpriv == \E i \in 1..Len(svx) : isXprivName(svx[i].name)
        hasPosthog == \E i \in 1..Len(svx) : isPosthogName(svx[i].name)
        hasVisitor == \E i \in 1..Len(svx) : isVisitorName(svx[i].name)
        authenticated == hasSession /\ (hasXpriv \/ hasPosthog \/ hasVisitor)
    IN  IF hasSession
        THEN [authenticated |-> TRUE,
              note |-> "Authenticated (SFSESSID on scholarvox).",
              matched |-> matchedOf(svx)]
        ELSE [authenticated |-> authenticated,
              note |-> IF authenticated
                       THEN "Authenticated via SFSESSID + signal."
                       ELSE "Not authenticated: missing SFSESSID on scholarvox.com.",
              matched |-> <<>>]

AuthInit ==
    /\ cookies = <<>>
    /\ apc = "jar"
    /\ authRes = NoAuth

\* The browser stores one more cookie (any site visited during the SSO flow).
SetCookie ==
    /\ AuthFrame
    /\ apc = "jar"
    /\ Len(cookies) < MaxCookies
    /\ \E c \in Cookie : cookies' = Append(cookies, c)
    /\ UNCHANGED <<apc, authRes>>

\* page.context().cookies() followed by detectAuthFromCookies
DetectAuth ==
    /\ AuthFrame
    /\ apc = "jar"
    /\ authRes' = detectAuthFromCookies(cookies)
    /\ apc' = "detected"
    /\ UNCHANGED cookies

\* A new browser context: an empty jar.
NewContext ==
    /\ AuthFrame
    /\ apc = "detected"
    /\ cookies' = <<>>
    /\ apc' = "jar"
    /\ authRes' = NoAuth

-----------------------------------------------------------------------------
(* Catalog Prober                                                          *)

Whitespace == {" ", "\n"}

\* String.prototype.trim
RECURSIVE trimStart(_)
trimStart(s) ==
    IF s # <<>> /\ Head(s) \in Whitespace THEN trimStart(Tail(s)) ELSE s

RECURSIVE trimEnd(_)
trimEnd(s) ==
    IF s # <<>> /\ s[Len(s)] \in Whitespace
    THEN trimEnd(SubSeq(s, 1, Len(s) - 1))
    ELSE s

trim(s) == trimEnd(trimStart(s))

\* `https://univ.scholarvox.com/catalog/book/docid/${encodeURIComponent(docid)}`
\* for identifiers made of unreserved characters
catalogUrl(id) == <<"https://univ.scholarvox.com/catalog/book/docid/">> \o id

AboutBlank == <<"about:blank">>

FinalUrls ==
    { catalogUrl(<<"88", "812", "345">>),
      catalogUrl(<<"88", "404", "12">>),
      <<"https://univ.scholarvox.com/", "ERROR">>,
      <<"https://univ.scholarvox.com/", "Not", "-", "Found">> }

\* /404|not[-_ ]found|error/i .test(finalUrl)
isErrorRoute(url) ==
    LET u == toLowerCase(url)
    IN  \/ includes(u, <<"404">>)
        \/ \E sep \in {"-", "_", " "} : includes(u, <<"not", sep, "found">>)
        \/ includes(u, <<"error">>)

Contents ==
    { <<"<html>", "catalogue", "</html>">>,
      <<"<html>", "Cet ouvrage sera bientot disponible", "</html>">>,
      <<"<html>", "CET OUVRAGE SERA BIENTOT DISPONIBLE", "</html>">> }

\* the first element of ".item.book .title h2, .book-title, h1, h2", if any,
\* and its textContent
Titles ==
    { [present |-> FALSE, text |-> <<>>],
      [present |-> TRUE, text |-> <<" ", "\n">>],
      [present |-> TRUE, text |-> <<" ", "Titre", " ">>] }

\* What the page's DOM answers to the prober's queries.
Dom ==
    [removedVisible : BOOLEAN,      \* .removedFlag first() isVisible()
     removedText : {<<>>, <<"Cet ouvrage n'est plus disponible">>},
     notAvailVisible : BOOLEAN,     \* #pnl-notavail, .notAvailableBox
     content : Contents,            \* page.content()
     title : Titles]

BlankDom ==
    [removedVisible |-> FALSE, removedText |-> <<>>, notAvailVisible |-> FALSE,
     content |-> <<"<html>", "</html>">>,
     title |-> [present |-> FALSE, text |-> <<>>]]

\* nav: "fail" (goto threw, caught to null), "notOk" (response with a
\* non-2xx status), "ok"
Remote == [nav : {"fail", "notOk", "ok"}, finalUrl : FinalUrls, dom : Dom]

BlankPage == [url |-> AboutBlank, dom |-> BlankDom]

\* page.goto: a navigation that fails leaves the page where it was
pageAfterGoto(page, rem) ==
    IF rem.nav = "fail" THEN page
    ELSE [url |-> rem.finalUrl, dom |-> rem.dom]

\* A test for the message that does not lower-case the page first.
hasSoonMessageCaseSensitive(pageContent) ==
    includes(pageContent, <<"cet ouvrage sera bientot disponible">>)

\* pageContent.toLowerCase().includes("cet ouvrage sera bientôt disponible")
\* (the atoms are written without the circumflex)
hasSoonMessage(pageContent) ==
    includes(toLowerCase(pageContent), <<"cet ouvrage sera bientot disponible">>)

\* A prober that reads page.url() before the navigation.
checkBookStatusStaleUrl(page, rem) ==
    LET after == pageAfterGoto(page, rem)
        d == after.dom
    IN  IF rem.nav # "ok" THEN
            [status |-> "NOT_FOUND", inspected |-> {}, page |-> after]
        ELSE IF isErrorRoute(page.url) THEN
            [status |-> "NOT_FOUND", inspected |-> {}, page |-> after]
        ELSE IF d.removedVisible THEN
            [status |-> "REMOVED", inspected |-> {".removedFlag"}, page |-> after]
        ELSE IF d.notAvailVisible THEN
            [status |-> "REMOVED", inspected |-> {".removedFlag", "#pnl-notavail"},
             page |-> after]
        ELSE IF hasSoonMessage(d.content) THEN
            [status |-> "AVAILABLE_SOON",
             inspected |-> {".removedFlag", "#pnl-notavail", "content"},
             page |-> after]
        ELSE
            [status |-> IF Len(trim(d.title.text)) > 0 THEN "FOUND" ELSE "NOT_FOUND",
             inspected |-> {".removedFlag", "#pnl-notavail", "content", "title"},
             page |-> after]

\* A prober that takes the title path before the removal and soon markers.
checkBookStatusTitleFirst(page, rem) ==
    LET after == pageAfterGoto(page, rem)
        d == after.dom
    IN  IF rem.nav # "ok" THEN
            [status |-> "NOT_FOUND", inspected |-> {}, page |-> after]
        ELSE IF isErrorRoute(after.url) THEN
            [status |-> "NOT_FOUND", inspected |-> {}, page |-> after]
        ELSE IF Len(trim(d.title.text)) > 0 THEN
            [status |-> "FOUND", inspected |-> {"title"}, page |-> after]
        ELSE IF d.removedVisible \/ d.notAvailVisible THEN
            [status |-> "REMOVED", inspected |-> {"title", ".removedFlag", "#pnl-notavail"},
             page |-> after]
        ELSE IF hasSoonMessage(d.content) THEN
            [status |-> "AVAILABLE_SOON",
             inspected |-> {"title", ".removedFlag", "#pnl-notavail", "content"},
             page |-> after]
        ELSE
            [status |-> "NOT_FOUND",
             inspected |-> {"title", ".removedFlag", "#pnl-notavail", "content"},
             page |-> after]

\* A prober that tests only for a missing response, not for resp.ok().
checkBookStatusIgnoresOk(page, rem) ==
    LET after == pageAfterGoto(page, rem)
        d == after.dom
    IN  IF rem.nav = "fail" THEN
            [status |-> "NOT_FOUND", inspected |-> {}, page |-> after]
        ELSE IF isErrorRoute(after.url) THEN
            [status |-> "NOT_FOUND", inspected |-> {}, page |-> after]
        ELSE IF d.removedVisible \/ d.notAvailVisible THEN
            [status |-> "REMOVED", inspected |-> {".removedFlag", "#pnl-notavail"},
             page |-> after]
        ELSE IF hasSoonMessage(d.content) THEN
            [status |-> "AVAILABLE_SOON",
             inspected |-> {".removedFlag", "#pnl-notavail", "content"},
             page |-> after]
        ELSE
            [status |-> IF Len(trim(d.title.text)) > 0 THEN "FOUND" ELSE "NOT_FOUND",
             inspected |-> {".removedFlag", "#pnl-notavail", "content", "title"},
             page |-> after]

\* A probe that looks for the soon message before the not-available panel.
checkBookStatusSoonBeforePanel(page, rem) ==
    LET after == pageAfterGoto(page, rem)
        d == after.dom
        titleText == IF d.title.present THEN trim(d.title.text) ELSE <<>>
    IN  IF rem.nav # "ok" THEN
            [status |-> "NOT_FOUND", inspected |-> {}, page |-> after]
        ELSE IF isErrorRoute(after.url) THEN
            [status |-> "NOT_FOUND", inspected |-> {}, page |-> after]
        ELSE IF d.removedVisible THEN
            [status |-> "REMOVED", inspected |-> {".removedFlag"}, page |-> after]
        ELSE IF hasSoonMessage(d.content) THEN
            [status |-> "AVAILABLE_SOON",
             inspected |-> {".removedFlag", "content"}, page |-> after]
        ELSE IF d.notAvailVisible THEN
            [status |-> "REMOVED",
             inspected |-> {".removedFlag", "content", "#pnl-notavail"},
             page |-> after]
        ELSE IF Len(titleText) > 0 THEN
            [status |-> "FOUND",
             inspected |-> {".removedFlag", "#pnl-notavail", "content", "title"},
             page |-> after]
        ELSE
            [status |-> "NOT_FOUND",
             inspected |-> {".removedFlag", "#pnl-notavail", "content", "title"},
             page |-> after]

\* checkBookStatus(page, docid): the status, the DOM queries made on the way,
\* and the page as the run leaves it.
checkBookStatus(page, rem) ==
    LET after == pageAfterGoto(page, rem)
        resp == IF rem.nav = "fail" THEN "null" ELSE rem.nav
        finalUrl == after.url
        d == after.dom
        removedVisible == d.removedVisible
        removedText == IF removedVisible THEN toLowerCase(d.removedText) ELSE <<>>
        notAvailVisible == d.notAvailVisible
        pageContent == d.content
        titleText == IF d.title.present THEN trim(d.title.text) ELSE <<>>
    IN  IF resp = "null" \/ resp # "ok" THEN
            [status |-> "NOT_FOUND", inspected |-> {}, page |-> after]
        ELSE IF isErrorRoute(finalUrl) THEN
            [status |-> "NOT_FOUND", inspected |-> {}, page |-> after]
        ELSE IF removedVisible THEN
            [status |-> "REMOVED", inspected |-> {".removedFlag"}, page |-> after]
        ELSE IF includes(removedText, <<"cet ouvrage n'est plus disponible">>) THEN
            [status |-> "REMOVED", inspected |-> {".removedFlag"}, page |-> after]
        ELSE IF notAvailVisible THEN
            [status |-> "REMOVED", inspected |-> {".removedFlag", "#pnl-notavail"},
             page |-> after]
        ELSE IF hasSoonMessage(pageContent) THEN
            [status |-> "AVAILABLE_SOON",
             inspected |-> {".removedFlag", "#pnl-notavail", "content"},
             page |-> after]
        ELSE IF Len(titleText) > 0 THEN
            [status |-> "FOUND",
             inspected |-> {".removedFlag", "#pnl-notavail", "content", "title"},
             page |-> after]
        ELSE
            [status |-> "NOT_FOUND",
             inspected |-> {".removedFlag", "#pnl-notavail", "content", "title"},
             page |-> after]

ProbeIdle ==
    /\ pg = BlankPage
    /\ inspected = {}
    /\ runNo = 0
    /\ statuses = <<>>
    /\ served = <<>>
    /\ changed = FALSE

\* One whole run of checkBookStatus on the same Page object.
RunProbe ==
    /\ ProbeFrame
    /\ runNo < 2
    /\ LET r == checkBookStatus(pg, remote)
       IN  /\ pg' = r.page
           /\ inspected' = r.inspected
           /\ statuses' = Append(statuses, r.status)
    /\ served' = Append(served, remote)
    /\ runNo' = runNo + 1
    /\ UNCHANGED <<remote, changed>>

\* Between two runs the platform changes one aspect of what it serves.
RemoteChange ==
    /\ ProbeFrame
    /\ runNo = 1
    /\ ~changed
    /\ \E r \in Remote :
          /\ r # remote
          /\ \/ r = [remote EXCEPT !.nav = r.nav]
             \/ r = [remote EXCEPT !.finalUrl = r.finalUrl]
             \/ \E f \in DOMAIN remote.dom : r = [remote EXCEPT !.dom[f] = r.dom[f]]
          /\ remote' = r
    /\ changed' = TRUE
    /\ UNCHANGED <<pg, inspected, runNo, statuses, served>>

-----------------------------------------------------------------------------
(* Fractions: the numbers the code computes with "/" and "*"               *)

RECURSIVE gcd(_, _)
gcd(a, b) == IF b = 0 THEN a ELSE gcd(b, a % b)

\* n/d in lowest terms, d > 0
frac(n, d) == IF n = 0 THEN <<0, 1>> ELSE <<n \div gcd(n, d), d \div gcd(n, d)>>

int(n) == <<n, 1>>

\* a / b, b not zero
fdiv(a, b) == frac(a[1] * b[2], a[2] * b[1])

\* a * b
fmul(a, b) == frac(a[1] * b[1], a[2] * b[2])

-----------------------------------------------------------------------------
(* The iframe-content page's DOM                                           *)

referenceWidth == 1080
referenceHeight == 1332
dpi == 96
\* the literal 0.4
referenceScale == <<2, 5>>
viewportWidth == 2800
viewportHeight == 2100
\* 1500 * 1500
largeArea == 1500 * 1500

img(w, h, c) == [kind |-> "img", naturalWidth |-> w, naturalHeight |-> h, complete |-> c]

\* document.images, in document order
ImgLists ==
    { <<>>,
      <<img(1080, 1332, TRUE)>>,
      <<img(2160, 2664, TRUE)>>,
      <<img(2160, 2664, FALSE)>>,
      <<img(0, 0, FALSE)>>,
      <<img(1080, 1332, TRUE), img(1600, 1500, TRUE)>> }

White == [r |-> 255, g |-> 255, b |-> 255, a |-> 255]
Transparent == [r |-> 0, g |-> 0, b |-> 0, a |-> 0]
Black == [r |-> 0, g |-> 0, b |-> 0, a |-> 255]
NearWhite == [r |-> 250, g |-> 250, b |-> 250, a |-> 255]
OffWhite == [r |-> 255, g |-> 249, b |-> 255, a |-> 255]

\* a canvas: its size, whether getContext("2d") gives a context, the colour
\* it was cleared to and the pixels painted since
canvas(w, h, c, bg, painted) ==
    [kind |-> "canvas", width |-> w, height |-> h, ctx |-> c,
     background |-> bg, painted |-> painted]

px(x, y, colour) == [p \in {<<x, y>>} |-> colour]

NoPaint == [p \in {} |-> White]

NoElement == [kind |-> "none"]

\* the largest canvas of the page, if any
Canvases ==
    { NoElement,
      canvas(1600, 1600, TRUE, White, NoPaint),
      canvas(1600, 1600, TRUE, Transparent, NoPaint),
      canvas(1600, 1600, TRUE, White, px(800, 800, Black)),
      canvas(1600, 1600, TRUE, White, px(0, 0, Black)),
      canvas(1600, 1600, TRUE, White, px(1200, 1200, OffWhite)),
      canvas(1600, 1600, TRUE, White, px(400, 400, NearWhite)),
      canvas(1600, 1600, FALSE, Black, NoPaint),
      canvas(400000, 8, TRUE, Black, NoPaint) }

div(w, h, bg) == [kind |-> "div", width |-> w, height |-> h, backgroundImage |-> bg]

\* the largest div of the page, by its bounding box
Divs ==
    { NoElement, div(2800, 2100, "url(p1.png)"), div(2800, 2100, "none") }

\* the element '[class*="page"]' || '[id*="page"]' || "body > div:first-child"
\* finds, by its bounding box
PageElements == { NoElement, [kind |-> "rect", width |-> 1200, height |-> 1480] }

iframeDom(images, cv, dv, pe) ==
    [images |-> images, canvas |-> cv, div |-> dv, pageElement |-> pe]

\* The pages the model loads: image pages, canvas pages, background-div pages
\* and mixtures of them.
IframeDom ==
    { iframeDom(images, NoElement, NoElement, pe) :
        images \in ImgLists, pe \in PageElements }
    \cup { iframeDom(<<>>, cv, NoElement, pe) : cv \in Canvases, pe \in PageElements }
    \cup { iframeDom(<<>>, NoElement, dv, pe) : dv \in Divs, pe \in PageElements }
    \cup { iframeDom(<<img(1080, 1332, TRUE)>>, cv, NoElement, NoElement) :
             cv \in Canvases }
    \cup { iframeDom(<<img(2160, 2664, FALSE)>>, cv, dv, NoElement) :
             cv \in Canvases, dv \in Divs }

NoDom == [images |-> <<>>, canvas |-> NoElement, div |-> NoElement,
          pageElement |-> NoElement]

\* images.forEach(img => { if (area > maxArea) { maxArea = area; largest = img } })
RECURSIVE largestImage(_, _, _)
largestImage(images, largest, maxArea) ==
    IF images = <<>> THEN largest
    ELSE LET imgEl == Head(images)
             area == imgEl.naturalWidth * imgEl.naturalHeight
         IN  IF area > maxArea
             THEN largestImage(Tail(images), imgEl, area)
             ELSE largestImage(Tail(images), largest, maxArea)

\* downloadBook's dims: the largest image's intrinsic size, else 1080 x 1332
bookDims(d) ==
    LET largest == largestImage(d.images, NoElement, 0)
    IN  IF /\ Len(d.images) > 0
           /\ largest.kind = "img"
           /\ largest.naturalWidth > 0 /\ largest.naturalHeight > 0
        THEN [width |-> largest.naturalWidth, height |-> largest.naturalHeight]
        ELSE [width |-> referenceWidth, height |-> referenceHeight]

\* A scale computed from the height instead of the width.
bookPdfOptionsFromHeight(dm) ==
    [width |-> [value |-> fdiv(int(dm.width), int(dpi)), unit |-> "in"],
     height |-> [value |-> fdiv(int(dm.height), int(dpi)), unit |-> "in"],
     scale |-> fmul(referenceScale, fdiv(int(dm.height), int(referenceWidth)))]

\* widthInches, heightInches, scale and the options handed to iframePage.pdf,
\* from the detected size dm (dims)
bookPdfOptions(dm) ==
    LET widthInches == fdiv(int(dm.width), int(dpi))
        heightInches == fdiv(int(dm.height), int(dpi))
        scale == fmul(referenceScale, fdiv(int(dm.width), int(referenceWidth)))
    IN  [width |-> [value |-> widthInches, unit |-> "in"],
         height |-> [value |-> heightInches, unit |-> "in"],
         scale |-> scale]

-----------------------------------------------------------------------------
(* downloadBook                                                            *)

MaxPages == 2

NoDims == [width |-> 0, height |-> 0]

BookIdle ==
    /\ dpc = "getCredentials"
    /\ browser = "none"
    /\ iframePages = <<>>
    /\ counts = <<>>
    /\ reloads = 0
    /\ totalPages = 0
    /\ idx = 0
    /\ scrolled = <<>>
    /\ steps = <<>>
    /\ dims = NoDims
    /\ pdfCalls = <<>>
    /\ fsOps = <<>>
    /\ err = ""

\* an exception inside the try block: control goes to the catch clause
bookThrow(msg) ==
    /\ dpc' = "catch"
    /\ err' = msg

\* an exception before the try block: downloadBook rejects at once
bookReject(msg) ==
    /\ dpc' = "threw"
    /\ err' = msg

closeLast(pages) == [pages EXCEPT ![Len(pages)] = "closed"]

\* const creds = await getCredentials()
DGetCredentials ==
    /\ BookFrame
    /\ dpc = "getCredentials"
    /\ \/ dpc' = "launch" /\ UNCHANGED err
       \/ bookReject("getCredentials failed")
    /\ UNCHANGED <<browser, iframePages, counts, reloads, totalPages, idx,
                   scrolled, steps, dims, pdfCalls, fsOps, dom>>

\* const browser = await chromium.launch(...)
DLaunch ==
    /\ BookFrame
    /\ dpc = "launch"
    /\ \/ dpc' = "newContext" /\ browser' = "open" /\ UNCHANGED err
       \/ bookReject("launch failed") /\ UNCHANGED browser
    /\ UNCHANGED <<iframePages, counts, reloads, totalPages, idx,
                   scrolled, steps, dims, pdfCalls, fsOps, dom>>

\* const context = await browser.newContext(...)
DNewContext ==
    /\ BookFrame
    /\ dpc = "newContext"
    /\ \/ dpc' = "newPage" /\ UNCHANGED err
       \/ bookReject("newContext failed")
    /\ UNCHANGED <<browser, iframePages, counts, reloads, totalPages, idx,
                   scrolled, steps, dims, pdfCalls, fsOps, dom>>

\* const page = await context.newPage()
DNewPage ==
    /\ BookFrame
    /\ dpc = "newPage"
    /\ \/ dpc' = "login" /\ UNCHANGED err
       \/ bookReject("newPage failed")
    /\ UNCHANGED <<browser, iframePages, counts, reloads, totalPages, idx,
                   scrolled, steps, dims, pdfCalls, fsOps, dom>>

\* await loginCESI(page, creds.email, creds.password, DEBUG)
DLogin ==
    /\ BookFrame
    /\ dpc = "login"
    /\ \/ dpc' = "gotoReader" /\ UNCHANGED err
       \/ bookThrow("login failed")
    /\ UNCHANGED <<browser, iframePages, counts, reloads, totalPages, idx,
                   scrolled, steps, dims, pdfCalls, fsOps, dom>>

\* await page.goto(reader url); await page.waitForTimeout(2000)
DGotoReader ==
    /\ BookFrame
    /\ dpc = "gotoReader"
    /\ \/ dpc' = "iframeUrl" /\ UNCHANGED err
       \/ bookThrow("reader navigation failed")
    /\ UNCHANGED <<browser, iframePages, counts, reloads, totalPages, idx,
                   scrolled, steps, dims, pdfCalls, fsOps, dom>>

\* const iframeUrl = await page.evaluate(...); if (!iframeUrl) throw
DIframeUrl ==
    /\ BookFrame
    /\ dpc = "iframeUrl"
    /\ \/ dpc' = "openIframe" /\ UNCHANGED err
       \/ bookThrow("No iframe found!")
       \/ bookThrow("evaluate failed")
    /\ UNCHANGED <<browser, iframePages, counts, reloads, totalPages, idx,
                   scrolled, steps, dims, pdfCalls, fsOps, dom>>

\* let iframePage = await context.newPage(); await iframePage.setViewportSize
DOpenIframe ==
    /\ BookFrame
    /\ dpc = "openIframe"
    /\ \/ /\ dpc' = "gotoIframe"
          /\ iframePages' = Append(iframePages, "open")
          /\ UNCHANGED err
       \/ bookThrow("newPage failed") /\ UNCHANGED iframePages
       \/ /\ bookThrow("setViewportSize failed")
          /\ iframePages' = Append(iframePages, "open")
    /\ UNCHANGED <<browser, counts, reloads, totalPages, idx,
                   scrolled, steps, dims, pdfCalls, fsOps, dom>>

\* await iframePage.goto(iframeUrl, ...); await iframePage.waitForTimeout(3000)
DGotoIframe ==
    /\ BookFrame
    /\ dpc = "gotoIframe"
    /\ \/ /\ dpc' = "count"
          /\ dom' \in IframeDom
          /\ UNCHANGED err
       \/ bookThrow("iframe navigation failed") /\ UNCHANGED dom
    /\ UNCHANGED <<browser, iframePages, counts, reloads, totalPages, idx,
                   scrolled, steps, dims, pdfCalls, fsOps>>

\* let totalPages = await iframePage.evaluate(...); if (totalPages === 0) ...
DCount ==
    /\ BookFrame
    /\ dpc = "count"
    /\ \/ \E n \in 0..MaxPages :
             /\ totalPages' = n
             /\ counts' = Append(counts, n)
             /\ dpc' = IF n = 0 THEN "retryClose" ELSE "scroll"
             /\ UNCHANGED err
       \/ bookThrow("evaluate failed") /\ UNCHANGED <<totalPages, counts>>
    /\ UNCHANGED <<browser, iframePages, reloads, idx,
                   scrolled, steps, dims, pdfCalls, fsOps, dom>>

\* await iframePage.close()
DRetryClose ==
    /\ BookFrame
    /\ dpc = "retryClose"
    /\ \/ /\ dpc' = "retryOpen"
          /\ iframePages' = closeLast(iframePages)
          /\ UNCHANGED err
       \/ bookThrow("close failed") /\ iframePages' = closeLast(iframePages)
    /\ UNCHANGED <<browser, counts, reloads, totalPages, idx,
                   scrolled, steps, dims, pdfCalls, fsOps, dom>>

\* iframePage = await context.newPage(); await iframePage.setViewportSize
DRetryOpen ==
    /\ BookFrame
    /\ dpc = "retryOpen"
    /\ \/ /\ dpc' = "retryGoto"
          /\ iframePages' = Append(iframePages, "open")
          /\ UNCHANGED err
       \/ bookThrow("newPage failed") /\ UNCHANGED iframePages
       \/ /\ bookThrow("setViewportSize failed")
          /\ iframePages' = Append(iframePages, "open")
    /\ UNCHANGED <<browser, counts, reloads, totalPages, idx,
                   scrolled, steps, dims, pdfCalls, fsOps, dom>>

\* await iframePage.goto(iframeUrl, ...); await iframePage.waitForTimeout(3000)
DRetryGoto ==
    /\ BookFrame
    /\ dpc = "retryGoto"
    /\ \/ /\ dpc' = "recount"
          /\ reloads' = reloads + 1
          /\ dom' \in IframeDom
          /\ UNCHANGED err
       \/ bookThrow("iframe navigation failed") /\ UNCHANGED <<reloads, dom>>
    /\ UNCHANGED <<browser, iframePages, counts, totalPages, idx,
                   scrolled, steps, dims, pdfCalls, fsOps>>

\* A retry that goes round again while the count stays zero.
DRecountRetriesAgain ==
    /\ BookFrame
    /\ dpc = "recount"
    /\ reloads < 3
    /\ \/ \E n \in 0..MaxPages :
             /\ totalPages' = n
             /\ counts' = Append(counts, n)
             /\ dpc' = IF n = 0 THEN "retryClose" ELSE "scroll"
             /\ UNCHANGED err
       \/ bookThrow("evaluate failed") /\ UNCHANGED <<totalPages, counts>>
    /\ UNCHANGED <<browser, iframePages, reloads, idx,
                   scrolled, steps, dims, pdfCalls, fsOps, dom>>

\* totalPages = await iframePage.evaluate(...); if (totalPages === 0) throw
DRecount ==
    /\ BookFrame
    /\ dpc = "recount"
    /\ \/ \E n \in 0..MaxPages :
             /\ totalPages' = n
             /\ counts' = Append(counts, n)
             /\ IF n = 0
                THEN bookThrow("Book still has 0 pages after retry.")
                ELSE dpc' = "scroll" /\ UNCHANGED err
       \/ bookThrow("evaluate failed") /\ UNCHANGED <<totalPages, counts>>
    /\ UNCHANGED <<browser, iframePages, reloads, idx,
                   scrolled, steps, dims, pdfCalls, fsOps, dom>>

\* A loop that scrolls the pages from the last one to the first.
DScrollDescending ==
    /\ BookFrame
    /\ dpc = "scroll"
    /\ idx < totalPages
    /\ \/ /\ scrolled' = Append(scrolled, totalPages - 1 - idx)
          /\ idx' = idx + 1
          /\ UNCHANGED <<dpc, err>>
       \/ bookThrow("evaluate failed") /\ UNCHANGED <<scrolled, idx>>
    /\ UNCHANGED <<browser, iframePages, counts, reloads, totalPages,
                   steps, dims, pdfCalls, fsOps, dom>>

\* one round of: for (let i = 0; i < totalPages; i++) { scrollIntoView; wait }
\* i++ runs once the evaluate call and the settle delay have both resolved
DScroll ==
    /\ BookFrame
    /\ dpc = "scroll"
    /\ idx < totalPages
    /\ \/ /\ scrolled' = Append(scrolled, idx)
          /\ idx' = idx + 1
          /\ UNCHANGED <<dpc, err>>
       \/ bookThrow("evaluate failed") /\ UNCHANGED <<scrolled, idx>>
       \/ /\ scrolled' = Append(scrolled, idx)
          /\ bookThrow("waitForTimeout failed")
          /\ UNCHANGED idx
    /\ UNCHANGED <<browser, iframePages, counts, reloads, totalPages,
                   steps, dims, pdfCalls, fsOps, dom>>

\* the loop ends; await iframePage.evaluate(fonts)
DFonts ==
    /\ BookFrame
    /\ dpc = "scroll"
    /\ ~(idx < totalPages)
    /\ \/ dpc' = "css" /\ steps' = Append(steps, "fonts") /\ UNCHANGED err
       \/ bookThrow("evaluate failed") /\ UNCHANGED steps
    /\ UNCHANGED <<browser, iframePages, counts, reloads, totalPages, idx,
                   scrolled, dims, pdfCalls, fsOps, dom>>

\* reset CSS for printing
DCss ==
    /\ BookFrame
    /\ dpc = "css"
    /\ \/ dpc' = "dims" /\ steps' = Append(steps, "css") /\ UNCHANGED err
       \/ bookThrow("evaluate failed") /\ UNCHANGED steps
    /\ UNCHANGED <<browser, iframePages, counts, reloads, totalPages, idx,
                   scrolled, dims, pdfCalls, fsOps, dom>>

\* A dimension step that creates the output directory ahead of the print.
DDimsMakesDir ==
    /\ BookFrame
    /\ dpc = "dims"
    /\ \/ /\ dpc' = "pdf"
          /\ dims' = bookDims(dom)
          /\ steps' = Append(steps, "dims")
          /\ fsOps' = Append(fsOps, "mkdir")
          /\ UNCHANGED err
       \/ bookThrow("evaluate failed") /\ UNCHANGED <<steps, dims, fsOps>>
    /\ UNCHANGED <<browser, iframePages, counts, reloads, totalPages, idx,
                   scrolled, pdfCalls, dom>>

\* const dims = await iframePage.evaluate(...)
DDims ==
    /\ BookFrame
    /\ dpc = "dims"
    /\ \/ /\ dpc' = "pdf"
          /\ dims' = bookDims(dom)
          /\ steps' = Append(steps, "dims")
          /\ UNCHANGED err
       \/ bookThrow("evaluate failed") /\ UNCHANGED <<steps, dims>>
    /\ UNCHANGED <<browser, iframePages, counts, reloads, totalPages, idx,
                   scrolled, pdfCalls, fsOps, dom>>

\* A print step that prints once per page of the book.
DPdfPerPage ==
    /\ BookFrame
    /\ dpc = "pdf"
    /\ pdfCalls' = Append(pdfCalls, bookPdfOptions(dims))
    /\ \/ /\ dpc' = IF Len(pdfCalls) + 1 < totalPages THEN "pdf" ELSE "mkdir"
          /\ steps' = IF Len(pdfCalls) + 1 < totalPages THEN steps
                      ELSE Append(steps, "pdf")
          /\ UNCHANGED err
       \/ bookThrow("pdf failed") /\ UNCHANGED steps
    /\ UNCHANGED <<browser, iframePages, counts, reloads, totalPages, idx,
                   scrolled, dims, fsOps, dom>>

\* widthInches, heightInches, scale; const pdfBuffer = await iframePage.pdf(...)
DPdf ==
    /\ BookFrame
    /\ dpc = "pdf"
    /\ pdfCalls' = Append(pdfCalls, bookPdfOptions(dims))
    /\ \/ dpc' = "mkdir" /\ steps' = Append(steps, "pdf") /\ UNCHANGED err
       \/ bookThrow("pdf failed") /\ UNCHANGED steps
    /\ UNCHANGED <<browser, iframePages, counts, reloads, totalPages, idx,
                   scrolled, dims, fsOps, dom>>

\* await fs.mkdir(path.dirname(outputPath), { recursive: true })
DMkdir ==
    /\ BookFrame
    /\ dpc = "mkdir"
    /\ \/ dpc' = "writeFile" /\ fsOps' = Append(fsOps, "mkdir") /\ UNCHANGED err
       \/ bookThrow("mkdir failed") /\ UNCHANGED fsOps
    /\ UNCHANGED <<browser, iframePages, counts, reloads, totalPages, idx,
                   scrolled, steps, dims, pdfCalls, dom>>

\* await fs.writeFile(outputPath, pdfBuffer)
DWriteFile ==
    /\ BookFrame
    /\ dpc = "writeFile"
    /\ \/ dpc' = "stat" /\ fsOps' = Append(fsOps, "writeFile") /\ UNCHANGED err
       \/ bookThrow("writeFile failed") /\ UNCHANGED fsOps
    /\ UNCHANGED <<browser, iframePages, counts, reloads, totalPages, idx,
                   scrolled, steps, dims, pdfCalls, dom>>

\* const stats = await fs.stat(outputPath); the final report
DStat ==
    /\ BookFrame
    /\ dpc = "stat"
    /\ \/ dpc' = "finally" /\ UNCHANGED err
       \/ bookThrow("stat failed")
    /\ UNCHANGED <<browser, iframePages, counts, reloads, totalPages, idx,
                   scrolled, steps, dims, pdfCalls, fsOps, dom>>

\* catch (err) { console.error(...); throw err }
DCatch ==
    /\ BookFrame
    /\ dpc = "catch"
    /\ dpc' = "finally"
    /\ UNCHANGED <<browser, iframePages, counts, reloads, totalPages, idx,
                   scrolled, steps, dims, pdfCalls, fsOps, err, dom>>

\* finally { await browser.close() }: closing the browser closes its pages
DFinally ==
    /\ BookFrame
    /\ dpc = "finally"
    /\ browser' = "closed"
    /\ iframePages' = [i \in 1..Len(iframePages) |-> "closed"]
    /\ dpc' = IF err = "" THEN "returned" ELSE "threw"
    /\ UNCHANGED <<counts, reloads, totalPages, idx,
                   scrolled, steps, dims, pdfCalls, fsOps, err, dom>>

\* Lazy loading and scripts change the iframe-content page while it is open.
BookDomChange ==
    /\ BookFrame
    /\ dpc \in {"count", "retryClose", "recount", "scroll", "css", "dims", "pdf"}
    /\ \E d \in IframeDom : d # dom /\ dom' = d
    /\ UNCHANGED bookVars

-----------------------------------------------------------------------------
(* printScholarVoxPageToPDF and its Render Stabilizer                      *)

maxAttempts == 30

ScaleArgs == { referenceScale, <<1, 2>> }

area(el) ==
    CASE el.kind = "img" -> el.naturalWidth * el.naturalHeight
      [] el.kind = "canvas" -> el.width * el.height
      [] el.kind = "div" -> el.width * el.height
      [] OTHER -> 0

\* A filter without the area threshold: every image is a candidate.
imagesOfAnyArea(images) == images

\* the candidates in the order they are pushed: images, canvases, divs
RECURSIVE largeImages(_)
largeImages(images) ==
    IF images = <<>> THEN <<>>
    ELSE IF area(Head(images)) > largeArea
         THEN <<Head(images)>> \o largeImages(Tail(images))
         ELSE largeImages(Tail(images))

candidates(d) ==
    largeImages(d.images)
      \o (IF d.canvas.kind = "canvas" /\ area(d.canvas) > largeArea
          THEN <<d.canvas>> ELSE <<>>)
      \o (IF /\ d.div.kind = "div" /\ area(d.div) > largeArea
             /\ d.div.backgroundImage # "" /\ d.div.backgroundImage # "none"
          THEN <<d.div>> ELSE <<>>)

\* candidates.sort((a, b) => b.area - a.area)[0]: the sort is stable, so the
\* first of the largest
RECURSIVE firstLargest(_, _)
firstLargest(cs, best) ==
    IF cs = <<>> THEN best
    ELSE IF best.kind = "none" \/ area(Head(cs)) > area(best)
         THEN firstLargest(Tail(cs), Head(cs))
         ELSE firstLargest(Tail(cs), best)

\* A pick that takes the first candidate pushed, whatever its area.
pickFirstCandidate(d) ==
    IF candidates(d) = <<>> THEN NoElement ELSE Head(candidates(d))

pickLargeCandidate(d) == firstLargest(candidates(d), NoElement)

\* ctx.getImageData(x, y, 1, 1).data
getImageData(cv, x, y) ==
    IF <<x, y>> \in DOMAIN cv.painted THEN cv.painted[<<x, y>>] ELSE cv.background

min(a, b) == IF a < b THEN a ELSE b

\* Math.floor(n * 0.25), Math.floor(n * 0.5), Math.floor(n * 0.75), n >= 0
samplesOf(w, h) ==
    << <<(w * 25) \div 100, (h * 25) \div 100>>,
       <<(w * 50) \div 100, (h * 50) \div 100>>,
       <<(w * 75) \div 100, (h * 75) \div 100>> >>

\* A sampler that takes every opaque pixel for content.
canvasHasOpaquePixel(cv) ==
    IF ~cv.ctx \/ cv.width < 10 \/ cv.height < 10 THEN FALSE
    ELSE \E i \in 1..3 :
            getImageData(cv, min(cv.width - 1, samplesOf(cv.width, cv.height)[i][1]),
                             min(cv.height - 1, samplesOf(cv.width, cv.height)[i][2])).a > 0

canvasHasNonWhitePixel(cv) ==
    IF ~cv.ctx \/ cv.width < 10 \/ cv.height < 10 THEN FALSE
    ELSE LET w == cv.width
             h == cv.height
             samples == samplesOf(w, h)
             coloured(i) ==
                 LET d == getImageData(cv, min(w - 1, samples[i][1]),
                                           min(h - 1, samples[i][2]))
                 IN  d.a > 0 /\ (d.r < 250 \/ d.g < 250 \/ d.b < 250)
         IN  Cardinality({i \in 1..3 : coloured(i)}) > 0

NotRendered == [ok |-> FALSE, kind |-> "none", width |-> 0, height |-> 0]

\* the body of one attempt after pickLargeCandidate: the result returned, or
\* NotRendered when the attempt goes on to sleep
validate(c) ==
    CASE c.kind = "img" ->
           IF c.complete /\ c.naturalWidth > 10 /\ c.naturalHeight > 10
           THEN [ok |-> TRUE, kind |-> "img",
                 width |-> c.naturalWidth, height |-> c.naturalHeight]
           ELSE NotRendered
      [] c.kind = "canvas" ->
           IF c.width > 10 /\ c.height > 10 /\ canvasHasNonWhitePixel(c)
           THEN [ok |-> TRUE, kind |-> "canvas", width |-> c.width, height |-> c.height]
           ELSE NotRendered
      [] c.kind = "div" ->
           IF c.width > 10 /\ c.height > 10
           THEN [ok |-> TRUE, kind |-> "div", width |-> c.width, height |-> c.height]
           ELSE NotRendered
      [] OTHER -> NotRendered

\* pageDimensions: the largest image, else the page element, else the window
printDims(d) ==
    LET largestImg == largestImage(d.images, NoElement, 0)
    IN  IF /\ Len(d.images) > 0
           /\ largestImg.kind = "img"
           /\ largestImg.naturalWidth > 0 /\ largestImg.naturalHeight > 0
        THEN [width |-> largestImg.naturalWidth, height |-> largestImg.naturalHeight,
              source |-> "image natural dimensions"]
        ELSE IF d.pageElement.kind = "rect"
        THEN [width |-> d.pageElement.width, height |-> d.pageElement.height,
              source |-> "page element"]
        ELSE [width |-> viewportWidth, height |-> viewportHeight, source |-> "window"]

\* autoScale = referenceScale * (pageDimensions.width / referenceWidth)
autoScaleOf(pd) == fmul(referenceScale, fdiv(int(pd.width), int(referenceWidth)))

\* Page sizes in points (72 per inch) labelled as inches.
printPdfOptionsInPoints(pd, scale) ==
    [width |-> [value |-> fdiv(int(pd.width), int(72)), unit |-> "in"],
     height |-> [value |-> fdiv(int(pd.height), int(72)), unit |-> "in"],
     scale |-> IF scale # referenceScale THEN scale ELSE autoScaleOf(pd)]

\* Options that always take the caller's scale, the default included.
printPdfOptionsCallerScale(pd, scale) ==
    [width |-> [value |-> fdiv(int(pd.width), int(dpi)), unit |-> "in"],
     height |-> [value |-> fdiv(int(pd.height), int(dpi)), unit |-> "in"],
     scale |-> scale]

\* the options handed to iframePage.pdf
printPdfOptions(pd, scale) ==
    LET pageWidthInches == fdiv(int(pd.width), int(dpi))
        pageHeightInches == fdiv(int(pd.height), int(dpi))
        finalScale == IF scale # referenceScale THEN scale ELSE autoScaleOf(pd)
    IN  [width |-> [value |-> pageWidthInches, unit |-> "in"],
         height |-> [value |-> pageHeightInches, unit |-> "in"],
         scale |-> finalScale]

NoPageDims == [width |-> 0, height |-> 0, source |-> "none"]

PrintIdle ==
    /\ ppc = "getIframeUrl"
    /\ iframePage = "none"
    /\ attempts = maxAttempts
    /\ cand = NoElement
    /\ renderInfo = NotRendered
    /\ pageDimensions = NoPageDims
    /\ autoScale = <<0, 1>>
    /\ printCalls = <<>>
    /\ warnings = {}
    /\ pending = ""
    /\ result = "none"

\* an exception inside the inner try: finally closes the page first
printThrow(msg) ==
    /\ ppc' = "finally"
    /\ pending' = msg

\* const iframeUrl = await getIframeUrl(page); if (!iframeUrl) return null
PGetIframeUrl ==
    /\ PrintFrame
    /\ ppc = "getIframeUrl"
    /\ \/ ppc' = "newPage" /\ UNCHANGED <<result, pending>>
       \/ ppc' = "returned" /\ result' = "null" /\ UNCHANGED pending
       \/ ppc' = "catch" /\ pending' = "getIframeUrl failed" /\ UNCHANGED result
    /\ UNCHANGED <<scaleArg, iframePage, attempts, cand, renderInfo,
                   pageDimensions, autoScale, printCalls, warnings, dom>>

\* const iframePage = await context.newPage()
PNewPage ==
    /\ PrintFrame
    /\ ppc = "newPage"
    /\ \/ ppc' = "goto" /\ iframePage' = "open" /\ UNCHANGED pending
       \/ ppc' = "catch" /\ pending' = "newPage failed" /\ UNCHANGED iframePage
    /\ UNCHANGED <<scaleArg, attempts, cand, renderInfo,
                   pageDimensions, autoScale, printCalls, warnings, result, dom>>

\* addInitScript, setViewportSize, goto; then the page isolation when a
\* pageNumber was given
PGoto ==
    /\ PrintFrame
    /\ ppc = "goto"
    /\ \/ /\ dom' \in IframeDom
          /\ \E pageNumberGiven \in BOOLEAN :
                ppc' = IF pageNumberGiven THEN "isolate" ELSE "fonts"
          /\ UNCHANGED pending
       \/ printThrow("iframe navigation failed") /\ UNCHANGED dom
    /\ UNCHANGED <<scaleArg, iframePage, attempts, cand, renderInfo,
                   pageDimensions, autoScale, printCalls, warnings, result>>

\* scroll to the target page, wait, hide the other pages and the sidebar
PIsolate ==
    /\ PrintFrame
    /\ ppc = "isolate"
    /\ \/ ppc' = "fonts" /\ UNCHANGED pending
       \/ printThrow("evaluate failed")
    /\ UNCHANGED <<scaleArg, iframePage, attempts, cand, renderInfo,
                   pageDimensions, autoScale, printCalls, warnings, result, dom>>

\* force-load the fonts, log them, wait 2000 ms; let attempts = 30
PFonts ==
    /\ PrintFrame
    /\ ppc = "fonts"
    /\ \/ ppc' = "stabilize" /\ attempts' = maxAttempts /\ UNCHANGED pending
       \/ printThrow("evaluate failed") /\ UNCHANGED attempts
    /\ UNCHANGED <<scaleArg, iframePage, cand, renderInfo,
                   pageDimensions, autoScale, printCalls, warnings, result, dom>>

\* one round of while (attempts-- > 0): the page as the nudge and the decoding
\* leave it is examined; an accepted candidate ends the evaluate call, and
\* with it the countdown, a local of that call
PAttempt ==
    /\ PrintFrame
    /\ ppc = "stabilize"
    /\ attempts > 0
    /\ \E d \in IframeDom :
          /\ dom' = d
          /\ cand' = pickLargeCandidate(d)
          /\ renderInfo' = validate(pickLargeCandidate(d))
          /\ IF validate(pickLargeCandidate(d)).ok
             THEN ppc' = "rendered" /\ attempts' = 0
             ELSE ppc' = "stabilize" /\ attempts' = attempts - 1
    /\ UNCHANGED <<scaleArg, iframePage, pageDimensions, autoScale,
                   printCalls, warnings, pending, result>>

\* A stabilizer whose timeout is an exception.
PTimeoutAborts ==
    /\ PrintFrame
    /\ ppc = "stabilize"
    /\ ~(attempts > 0)
    /\ attempts' = attempts - 1
    /\ renderInfo' = NotRendered
    /\ printThrow("timed out waiting for rendered page")
    /\ UNCHANGED <<scaleArg, iframePage, cand, pageDimensions, autoScale,
                   printCalls, warnings, result, dom>>

\* the loop test fails: return { ok: false, reason: "timed out ..." }
PTimeout ==
    /\ PrintFrame
    /\ ppc = "stabilize"
    /\ ~(attempts > 0)
    /\ attempts' = attempts - 1
    /\ renderInfo' = NotRendered
    /\ ppc' = "rendered"
    /\ UNCHANGED <<scaleArg, iframePage, cand, pageDimensions, autoScale,
                   printCalls, warnings, pending, result, dom>>

\* the evaluate call of the stabilizer rejects (page crashed or navigated)
PStabilizeFails ==
    /\ PrintFrame
    /\ ppc = "stabilize"
    /\ printThrow("evaluate failed")
    /\ UNCHANGED <<scaleArg, iframePage, attempts, cand, renderInfo,
                   pageDimensions, autoScale, printCalls, warnings, result, dom>>

\* the render warning, the authentication message check, the CSS reset
PAfterRender ==
    /\ PrintFrame
    /\ ppc = "rendered"
    /\ warnings' = IF renderInfo.ok THEN warnings
                   ELSE warnings \cup {"lazy loader timeout"}
    /\ \/ ppc' = "dims" /\ UNCHANGED pending
       \/ printThrow("evaluate failed")
    /\ UNCHANGED <<scaleArg, iframePage, attempts, cand, renderInfo,
                   pageDimensions, autoScale, printCalls, result, dom>>

\* const pageDimensions = await iframePage.evaluate(...); the debug dimensions
PDims ==
    /\ PrintFrame
    /\ ppc = "dims"
    /\ \/ /\ ppc' = "pdf"
          /\ pageDimensions' = printDims(dom)
          /\ UNCHANGED pending
       \/ printThrow("evaluate failed") /\ UNCHANGED pageDimensions
    /\ UNCHANGED <<scaleArg, iframePage, attempts, cand, renderInfo,
                   autoScale, printCalls, warnings, result, dom>>

\* the inches, autoScale and finalScale; await iframePage.pdf(...)
PPdf ==
    /\ PrintFrame
    /\ ppc = "pdf"
    /\ autoScale' = autoScaleOf(pageDimensions)
    /\ printCalls' = Append(printCalls, printPdfOptions(pageDimensions, scaleArg))
    /\ \/ ppc' = "finally" /\ result' = "buffer" /\ UNCHANGED pending
       \/ printThrow("pdf failed") /\ UNCHANGED result
    /\ UNCHANGED <<scaleArg, iframePage, attempts, cand, renderInfo,
                   pageDimensions, warnings, dom>>

\* A cleanup that closes the page on the success path only.
PFinallyOnSuccessOnly ==
    /\ PrintFrame
    /\ ppc = "finally"
    /\ IF pending = ""
       THEN \/ /\ iframePage' = "closed"
               /\ ppc' = "returned"
               /\ UNCHANGED pending
            \/ /\ pending' = "close failed"
               /\ ppc' = "catch"
               /\ iframePage' = "closed"
       ELSE ppc' = "catch" /\ UNCHANGED <<iframePage, pending>>
    /\ UNCHANGED <<scaleArg, attempts, cand, renderInfo, result,
                   pageDimensions, autoScale, printCalls, warnings, dom>>

\* finally { await iframePage.close() }; close() is called on every path,
\* and an exception of close() itself replaces the pending one
PFinally ==
    /\ PrintFrame
    /\ ppc = "finally"
    /\ \/ /\ iframePage' = "closed"
          /\ ppc' = IF pending = "" THEN "returned" ELSE "catch"
          /\ UNCHANGED pending
       \/ /\ pending' = "close failed"
          /\ ppc' = "catch"
          /\ iframePage' = "closed"
    /\ UNCHANGED <<scaleArg, attempts, cand, renderInfo, result,
                   pageDimensions, autoScale, printCalls, warnings, dom>>

\* An outer catch that logs and rethrows.
PCatchRethrows ==
    /\ PrintFrame
    /\ ppc = "catch"
    /\ ppc' = "threw"
    /\ UNCHANGED <<scaleArg, iframePage, attempts, cand, renderInfo, result,
                   pageDimensions, autoScale, printCalls, warnings, pending, dom>>

\* catch (err) { console.error(...); return null }
PCatch ==
    /\ PrintFrame
    /\ ppc = "catch"
    /\ result' = "null"
    /\ ppc' = "returned"
    /\ UNCHANGED <<scaleArg, iframePage, attempts, cand, renderInfo,
                   pageDimensions, autoScale, printCalls, warnings, pending, dom>>

\* Lazy loading and scripts change the iframe-content page between the calls.
PrintDomChange ==
    /\ PrintFrame
    /\ ppc \in {"rendered", "dims"}
    /\ \E d \in IframeDom : d # dom /\ dom' = d
    /\ UNCHANGED printVars

-----------------------------------------------------------------------------
(* loginCESI                                                               *)

SamlUrl == <<"https://", "univ", ".", "scholarvox.com", "/saml-sp/viacesi">>

PlatformHome == <<"https://", "univ", ".", "scholarvox.com", "/">>

\* pages of the identity provider; the second carries the platform's address
\* in its query string
IdpLoginUrl == <<"https://", "wayf", ".", "cesi", ".", "fr", "/login">>

IdpReturnUrl == IdpLoginUrl \o <<"?return=">> \o PlatformHome

\* where the browser stands after the goto and the 3 s wait for the redirect
LoginPageUrls == {SamlUrl, IdpLoginUrl, IdpReturnUrl}

\* where the browser stands 30 s after the submit action
AfterSubmitUrls == {PlatformHome, IdpLoginUrl, IdpReturnUrl}

\* /scholarvox\.com/ tested against the URL
matchesPlatformUrl(url) == includes(url, <<"scholarvox.com">>)

NoError == [name |-> "none", message |-> <<>>]

\* the errors Playwright rejects with
TimeoutError(api, ms) ==
    [name |-> "TimeoutError",
     message |-> <<api, ": Timeout ", ms, "ms exceeded.">>]

\* the call log of a waitForURL timeout lists the navigations it saw
NavigationTimeoutErrors(url) ==
    { TimeoutError("page.waitForURL", "30000"),
      [name |-> "TimeoutError",
       message |-> <<"page.waitForURL", ": Timeout ", "30000", "ms exceeded.",
                     " navigated to ">> \o url] }

ActionError(api) == [name |-> "Error", message |-> <<api, ": Target closed">>]

CesiIdle ==
    /\ cpc = "goto"
    /\ pageUrl = AboutBlank
    /\ submitVia = "none"
    /\ thrown = NoError

\* an exception inside the try block: control goes to the catch clause
cesiThrow(e) ==
    /\ cpc' = "catch"
    /\ thrown' = e

\* await page.goto(".../saml-sp/viacesi"); await page.waitForTimeout(3000)
CGoto ==
    /\ CesiFrame
    /\ cpc = "goto"
    /\ \/ /\ pageUrl' \in LoginPageUrls
          /\ cpc' = "email"
          /\ UNCHANGED thrown
       \/ /\ cpc' = "threw"
          /\ thrown' = TimeoutError("page.goto", "45000")
          /\ UNCHANGED pageUrl
    /\ UNCHANGED submitVia

\* emailInput.waitFor visible (10 s), click, fill, wait 500 ms
CEmail ==
    /\ CesiFrame
    /\ cpc = "email"
    /\ \/ cpc' = "password" /\ UNCHANGED thrown
       \/ cesiThrow(TimeoutError("locator.waitFor", "10000"))
       \/ cesiThrow(ActionError("locator.fill"))
    /\ UNCHANGED <<pageUrl, submitVia>>

\* passwordInput.waitFor visible (5 s), click, fill, wait 500 ms
CPassword ==
    /\ CesiFrame
    /\ cpc = "password"
    /\ \/ cpc' = "submit" /\ UNCHANGED thrown
       \/ cesiThrow(TimeoutError("locator.waitFor", "5000"))
       \/ cesiThrow(ActionError("locator.fill"))
    /\ UNCHANGED <<pageUrl, submitVia>>

\* hasButton; Promise.all([page.waitForURL(/scholarvox\.com/), click or Enter]):
\* waitForURL resolves at once when the current URL matches already, and
\* otherwise when a navigation to a matching URL happens within 30 s
CSubmit ==
    /\ CesiFrame
    /\ cpc = "submit"
    /\ \E hasButton \in BOOLEAN :
          submitVia' = IF hasButton THEN "click" ELSE "enter"
    /\ \E u \in AfterSubmitUrls :
          /\ pageUrl' = u
          /\ IF matchesPlatformUrl(pageUrl) \/ matchesPlatformUrl(u)
             THEN cpc' = "settle" /\ UNCHANGED thrown
             ELSE \E e \in NavigationTimeoutErrors(u) : cesiThrow(e)

\* await page.waitForTimeout(2000)
CSettle ==
    /\ CesiFrame
    /\ cpc = "settle"
    /\ \/ cpc' = "returned" /\ UNCHANGED thrown
       \/ cesiThrow(ActionError("page.waitForTimeout"))
    /\ UNCHANGED <<pageUrl, submitVia>>

\* catch (error) { console.error(...); throw error }
CCatch ==
    /\ CesiFrame
    /\ cpc = "catch"
    /\ cpc' = "threw"
    /\ UNCHANGED <<pageUrl, submitVia, thrown>>

-----------------------------------------------------------------------------
(* performInteractiveLogin and waitAndDetectAuth                           *)

MaxCycles == 2

MaxPolls == 2

\* the jar before the login, with a diagnostic cookie only, and with the
\* session cookie
Jars ==
    { <<>>,
      <<[name |-> <<"_xpriv", "1">>, domain |-> <<".", "scholarvox.com">>]>>,
      <<[name |-> <<"SFSESSID">>, domain |-> <<"univ", ".", "scholarvox.com">>]>> }

\* one call of waitAndDetectAuth: whether it is the one after the loop,
\* whether a docid was passed (the call then navigates to the reader), and
\* what it returned ("pending" while it runs)
authCall(final, withDocid) ==
    [final |-> final, docid |-> withDocid, authenticated |-> "pending"]

returnedBy(calls, res) ==
    [calls EXCEPT ![Len(calls)].authenticated =
                      IF res.authenticated THEN "true" ELSE "false"]

LoginIdle ==
    /\ lpc = "openLoginEntry"
    /\ wpc = "idle"
    /\ elapsed = FALSE
    /\ cycles = 0
    /\ polls = 0
    /\ jarRead = <<>>
    /\ authCalls = <<>>
    /\ loginResult = NoAuth

\* await openLoginEntry(page, nav): every goto and the button probe are
\* caught; const start = Date.now()
LOpenLoginEntry ==
    /\ LoginFrame
    /\ lpc = "openLoginEntry"
    /\ lpc' = "loopTest"
    /\ UNCHANGED <<wpc, docidGiven, elapsed, cycles, polls, jarRead, authCalls,
                   loginResult, cookies, authRes>>

\* A loop whose last check passes the docid on, as the poll cycles do.
LLoopTestFinalWithDocid ==
    /\ LoginFrame
    /\ lpc = "loopTest"
    /\ \E late \in (IF elapsed \/ cycles >= MaxCycles THEN {TRUE} ELSE BOOLEAN) :
          /\ elapsed' = late
          /\ lpc' = IF late THEN "finalCheck" ELSE "cycle"
          /\ cycles' = IF late THEN cycles ELSE cycles + 1
          /\ authCalls' = Append(authCalls, authCall(late, docidGiven))
    /\ wpc' = "nav"
    /\ UNCHANGED <<docidGiven, polls, jarRead, loginResult, cookies, authRes>>

\* while (Date.now() - start < timeoutMs): the next poll cycle calls
\* waitAndDetectAuth with docidForAuthCheck; after the loop the last check
\* calls it with docid undefined
LLoopTest ==
    /\ LoginFrame
    /\ lpc = "loopTest"
    /\ \E late \in (IF elapsed \/ cycles >= MaxCycles THEN {TRUE} ELSE BOOLEAN) :
          /\ elapsed' = late
          /\ lpc' = IF late THEN "finalCheck" ELSE "cycle"
          /\ cycles' = IF late THEN cycles ELSE cycles + 1
          /\ authCalls' = Append(authCalls,
                                 authCall(late, IF late THEN FALSE ELSE docidGiven))
    /\ wpc' = "nav"
    /\ UNCHANGED <<docidGiven, polls, jarRead, loginResult, cookies, authRes>>

\* waitAndDetectAuth: const start = Date.now(); if (docid) the reader is
\* visited, and its iframe awaited, every failure caught
WNav ==
    /\ LoginFrame
    /\ lpc \in {"cycle", "finalCheck"}
    /\ wpc = "nav"
    /\ wpc' = "pollTest"
    /\ polls' = 0
    /\ UNCHANGED <<lpc, docidGiven, elapsed, cycles, jarRead, authCalls,
                   loginResult, cookies, authRes>>

\* while (Date.now() - start < timeoutMs)
WPollTest ==
    /\ LoginFrame
    /\ lpc \in {"cycle", "finalCheck"}
    /\ wpc = "pollTest"
    /\ \/ polls < MaxPolls /\ wpc' = "read"
       \/ wpc' = "final"
    /\ UNCHANGED <<lpc, docidGiven, elapsed, cycles, polls, jarRead, authCalls,
                   loginResult, cookies, authRes>>

\* A poll that reads the jar on its first round only and keeps that list.
WReadCached ==
    /\ LoginFrame
    /\ lpc \in {"cycle", "finalCheck"}
    /\ wpc = "read"
    /\ \/ LET jar == IF polls = 0 THEN cookies ELSE jarRead
          IN  /\ jarRead' = jar
              /\ authRes' = detectAuthFromCookies(jar)
              /\ wpc' = IF detectAuthFromCookies(jar).authenticated
                        THEN "done" ELSE "pollTest"
          /\ polls' = polls + 1
          /\ UNCHANGED lpc
       \/ /\ lpc' = "threw"
          /\ UNCHANGED <<wpc, polls, jarRead, authRes>>
    /\ UNCHANGED <<docidGiven, elapsed, cycles, authCalls, loginResult, cookies>>

\* const cookies = await page.context().cookies(); res = detectAuthFromCookies;
\* if (res.authenticated) return res; await page.waitForTimeout(800)
WRead ==
    /\ LoginFrame
    /\ lpc \in {"cycle", "finalCheck"}
    /\ wpc = "read"
    /\ \/ /\ jarRead' = cookies
          /\ authRes' = detectAuthFromCookies(cookies)
          /\ wpc' = IF detectAuthFromCookies(cookies).authenticated
                    THEN "done" ELSE "pollTest"
          /\ polls' = polls + 1
          /\ UNCHANGED lpc
       \/ /\ lpc' = "threw"
          /\ UNCHANGED <<wpc, polls, jarRead, authRes>>
    /\ UNCHANGED <<docidGiven, elapsed, cycles, authCalls, loginResult, cookies>>

\* const finalCookies = await page.context().cookies();
\* return detectAuthFromCookies(finalCookies)
WFinal ==
    /\ LoginFrame
    /\ lpc \in {"cycle", "finalCheck"}
    /\ wpc = "final"
    /\ \/ /\ jarRead' = cookies
          /\ authRes' = detectAuthFromCookies(cookies)
          /\ wpc' = "done"
          /\ UNCHANGED lpc
       \/ /\ lpc' = "threw"
          /\ UNCHANGED <<wpc, jarRead, authRes>>
    /\ UNCHANGED <<docidGiven, elapsed, cycles, polls, authCalls, loginResult,
                   cookies>>

\* if (auth.authenticated) return auth; await page.waitForTimeout(pollEveryMs)
LAfterCycle ==
    /\ LoginFrame
    /\ lpc = "cycle"
    /\ wpc = "done"
    /\ authCalls' = returnedBy(authCalls, authRes)
    /\ IF authRes.authenticated
       THEN lpc' = "returned" /\ loginResult' = authRes
       ELSE lpc' = "loopTest" /\ UNCHANGED loginResult
    /\ wpc' = "idle"
    /\ UNCHANGED <<docidGiven, elapsed, cycles, polls, jarRead, cookies, authRes>>

\* return waitAndDetectAuth(page, { docid: undefined, ... })
LReturnFinal ==
    /\ LoginFrame
    /\ lpc = "finalCheck"
    /\ wpc = "done"
    /\ authCalls' = returnedBy(authCalls, authRes)
    /\ loginResult' = authRes
    /\ lpc' = "returned"
    /\ wpc' = "idle"
    /\ UNCHANGED <<docidGiven, elapsed, cycles, polls, jarRead, cookies, authRes>>

\* The SSO flow in the browser window stores or drops cookies meanwhile.
JarChange ==
    /\ LoginFrame
    /\ lpc \notin {"returned", "threw"}
    /\ \E j \in Jars : j # cookies /\ cookies' = j
    /\ UNCHANGED <<loginVars, authRes>>

-----------------------------------------------------------------------------
(* main and validateBook                                                   *)

\* what the user types at "Enter book ID: "
Answers == { <<>>, <<" ">>, <<"88", "812", "345">>, <<" ", "88", "812", "345", "\n">> }

\* the catalog pages main's probe may meet: one plain page per signal
MainRemotes ==
    { r \in Remote :
        /\ r.nav \in {"fail", "ok"}
        /\ r.finalUrl = catalogUrl(<<"88", "812", "345">>)
        /\ r.dom.removedText = <<>>
        /\ ~r.dom.notAvailVisible
        /\ r.dom.content \in { <<"<html>", "catalogue", "</html>">>,
                               <<"<html>", "Cet ouvrage sera bientot disponible", "</html>">> }
        /\ r.dom.title \in { [present |-> FALSE, text |-> <<>>],
                             [present |-> TRUE, text |-> <<" ", "Titre", " ">>] } }

\* A switch that lets a book announced for later through.
isValidStatusSoonAccepted(status) == status \in {"FOUND", "AVAILABLE_SOON"}

\* switch (status): true for FOUND, false for every other status
isValidStatus(status) == status = "FOUND"

MainIdle ==
    /\ mpc = "ask"
    /\ docid = <<>>
    /\ vstatus = "none"
    /\ isValid = "none"
    /\ exitCode = -1

\* const docid = await ask("Enter book ID: "): the answer, trimmed
MAsk ==
    /\ MainFrame
    /\ mpc = "ask"
    /\ \E answer \in Answers : docid' = trim(answer)
    /\ mpc' = "checkDocid"
    /\ UNCHANGED <<vstatus, isValid, exitCode>>

\* if (!docid) { console.log(...); process.exit(1) }
MCheckDocid ==
    /\ MainFrame
    /\ mpc = "checkDocid"
    /\ IF docid = <<>>
       THEN mpc' = "exited" /\ exitCode' = 1
       ELSE mpc' = "validateBook" /\ UNCHANGED exitCode
    /\ UNCHANGED <<docid, vstatus, isValid>>

\* const isValid = await validateBook(docid): the launch, the context and the
\* page are created before the try; inside it the probe runs and the browser
\* is closed; the catch closes the browser again and returns false
MValidateBook ==
    /\ MainFrame
    /\ mpc = "validateBook"
    /\ \/ /\ vstatus' = "none"                    \* launch, newContext or newPage rejects
          /\ isValid' = "rejected"
       \/ /\ vstatus' = checkBookStatus(BlankPage, remote).status
          /\ \/ isValid' = IF isValidStatus(checkBookStatus(BlankPage, remote).status)
                           THEN "true" ELSE "false"
             \/ isValid' = "false"                \* browser.close() throws, the catch's succeeds
             \/ isValid' = "rejected"             \* both browser.close() calls throw
       \/ /\ vstatus' = "none"                    \* checkBookStatus throws
          /\ isValid' \in {"false", "rejected"}
    /\ mpc' = "checkValid"
    /\ UNCHANGED <<docid, exitCode>>

\* if (!isValid) process.exit(1); a rejection reaches main().catch: exit(1)
MCheckValid ==
    /\ MainFrame
    /\ mpc = "checkValid"
    /\ IF isValid = "true"
       THEN mpc' = "askOutput" /\ UNCHANGED exitCode
       ELSE mpc' = "exited" /\ exitCode' = 1
    /\ UNCHANGED <<docid, vstatus, isValid>>

\* const outputAnswer = await ask(...); await downloadBook(docid, outputPath)
MAskOutput ==
    /\ MainFrame
    /\ mpc = "askOutput"
    /\ mpc' = "downloadBook"
    /\ UNCHANGED <<docid, vstatus, isValid, exitCode>>

\* downloadBook returned: main ends and the process exits with code 0
MReturn ==
    /\ MainFrame
    /\ mpc = "downloadBook"
    /\ dpc = "returned"
    /\ mpc' = "exited"
    /\ exitCode' = 0
    /\ UNCHANGED <<docid, vstatus, isValid>>

\* main().catch(err => { console.error("Fatal error:", err); process.exit(1) })
MFatal ==
    /\ MainFrame
    /\ mpc = "downloadBook"
    /\ dpc = "threw"
    /\ mpc' = "exited"
    /\ exitCode' = 1
    /\ UNCHANGED <<docid, vstatus, isValid>>

-----------------------------------------------------------------------------
(* The program: one of its entry points runs                               *)

IdleRemote == [nav |-> "fail", finalUrl |-> AboutBlank, dom |-> BlankDom]

Init ==
    /\ entry \in {"detectAuthFromCookies", "checkBookStatus", "downloadBook",
                  "printScholarVoxPageToPDF", "loginCESI",
                  "performInteractiveLogin", "main"}
    /\ AuthInit
    /\ CASE entry = "checkBookStatus" -> remote \in Remote
         [] entry = "main" -> remote \in MainRemotes
         [] OTHER -> remote = IdleRemote
    /\ CesiIdle
    /\ LoginIdle
    /\ IF entry = "performInteractiveLogin"
       THEN docidGiven \in BOOLEAN ELSE docidGiven = FALSE
    /\ MainIdle
    /\ ProbeIdle
    /\ dom = NoDom
    /\ BookIdle
    /\ PrintIdle
    /\ IF entry = "printScholarVoxPageToPDF"
       THEN scaleArg \in ScaleArgs ELSE scaleArg = referenceScale

Next ==
    \/ SetCookie \/ DetectAuth \/ NewContext
    \/ RunProbe \/ RemoteChange
    \/ DGetCredentials \/ DLaunch \/ DNewContext \/ DNewPage \/ DLogin
    \/ DGotoReader \/ DIframeUrl \/ DOpenIframe \/ DGotoIframe \/ DCount
    \/ DRetryClose \/ DRetryOpen \/ DRetryGoto \/ DRecount
    \/ DScroll \/ DFonts \/ DCss \/ DDims \/ DPdf
    \/ DMkdir \/ DWriteFile \/ DStat \/ DCatch \/ DFinally
    \/ BookDomChange
    \/ PGetIframeUrl \/ PNewPage \/ PGoto \/ PIsolate \/ PFonts
    \/ PAttempt \/ PTimeout \/ PStabilizeFails \/ PAfterRender
    \/ PDims \/ PPdf \/ PFinally \/ PCatch \/ PrintDomChange
    \/ CGoto \/ CEmail \/ CPassword \/ CSubmit \/ CSettle \/ CCatch
    \/ LOpenLoginEntry \/ LLoopTest \/ WNav \/ WPollTest \/ WRead \/ WFinal
    \/ LAfterCycle \/ LReturnFinal \/ JarChange
    \/ MAsk \/ MCheckDocid \/ MValidateBook \/ MCheckValid \/ MAskOutput
    \/ MReturn \/ MFatal

Spec == Init /\ [][Next]_vars

\* The stabilizer's loop runs inside the browser, whose event loop settles
\* every decode promise and fires the 200 ms timer: a round that can be taken
\* is taken.
FairSpec == Spec /\ WF_vars(PAttempt \/ PTimeout)

-----------------------------------------------------------------------------
(* Properties of the Auth Detector                                         *)

PlatformRoot == <<"scholarvox.com">>

\* the cookie's domain, less one leading dot, is the platform's root domain
\* or a subdomain of it
OnPlatformDomain(d) ==
    LET n == IF d # <<>> /\ Head(d) = "." THEN Tail(d) ELSE d
    IN  n = PlatformRoot \/ endsWith(n, <<".">> \o PlatformRoot)

\* the name starts, whatever the case, with sfsessid
HasSessionPrefix(n) == n # <<>> /\ LowerAtom(Head(n)) = "sfsessid"

PlatformSessionCookie(c) == OnPlatformDomain(c.domain) /\ HasSessionPrefix(c.name)

IsDiagnosticName(n) ==
    \E i \in 1..Len(n) : LowerAtom(n[i]) \in {"_xpriv", "posthog", "visitor_unique"}

Detected == entry = "detectAuthFromCookies" /\ apc = "detected"

\* C1: whenever the cookie list holds a cookie on the platform domain whose
\* name starts, case-insensitively, with sfsessid, the detector's result is
\* authenticated, whatever the other cookies are.
C1_SessionCookieAuthenticates ==
    (Detected /\ \E i \in 1..Len(cookies) : PlatformSessionCookie(cookies[i]))
        => authRes.authenticated

\* a detection on a session cookie in mixed case, with one other cookie that
\* is no diagnostic cookie
C1_Witness ==
    /\ Detected
    /\ Len(cookies) = 2
    /\ cookies[1] = [name |-> <<"SfSessId">>, domain |-> <<".", "scholarvox.com">>]
    /\ ~IsDiagnosticName(cookies[2].name)
    /\ ~HasSessionPrefix(cookies[2].name)
    /\ authRes.authenticated

\* C2: whenever the cookie list holds no sfsessid-prefixed cookie on the
\* platform domain, the detector's result is not authenticated and its matched
\* list is empty, also with diagnostic cookies on the platform domain.
C2_NoSessionCookieNotAuthenticated ==
    (Detected /\ ~\E i \in 1..Len(cookies) : PlatformSessionCookie(cookies[i]))
        => (~authRes.authenticated /\ authRes.matched = <<>>)

-----------------------------------------------------------------------------
(* Properties of downloadBook's zero-page retry                            *)

InBook == entry = "downloadBook"

PastTheCount ==
    dpc \in {"scroll", "css", "dims", "pdf", "mkdir", "writeFile", "stat", "returned"}

\* C3: the page count is read at most twice and the iframe URL loaded again at
\* most once; a non-zero first count means no reload; the run goes on after a
\* zero first count only with exactly one reload and a second count; a zero
\* second count ends the run with the error, without another reload.
C3_ExactlyOneReload ==
    InBook =>
        /\ reloads <= 1
        /\ Len(counts) <= 2
        /\ (Len(counts) >= 1 /\ counts[1] # 0) => (reloads = 0 /\ Len(counts) = 1)
        /\ Len(counts) = 2 => (counts[1] = 0 /\ reloads = 1)
        /\ (PastTheCount /\ counts[1] = 0) =>
              (reloads = 1 /\ Len(counts) = 2 /\ counts[2] # 0)
        /\ (Len(counts) = 2 /\ counts[2] = 0) =>
              /\ dpc \in {"catch", "finally", "threw"}
              /\ err = "Book still has 0 pages after retry."

\* a run that read zero twice and threw, after one reload
C3_Witness ==
    /\ InBook
    /\ counts = <<0, 0>>
    /\ reloads = 1
    /\ dpc = "threw"

-----------------------------------------------------------------------------
(* Properties of the Render Stabilizer's canvas check                      *)

InPrint == entry = "printScholarVoxPageToPDF"

\* the pixels at 25%, 50% and 75% of the width and of the height
SamplePoints(cv) ==
    { <<cv.width \div 4, cv.height \div 4>>,
      <<cv.width \div 2, cv.height \div 2>>,
      <<(3 * cv.width) \div 4, (3 * cv.height) \div 4>> }

\* some sampled pixel is neither transparent nor near-white
SampleColoured(cv) ==
    /\ cv.ctx
    /\ \E p \in SamplePoints(cv) :
          LET d == IF p \in DOMAIN cv.painted THEN cv.painted[p] ELSE cv.background
          IN  d.a > 0 /\ (d.r < 250 \/ d.g < 250 \/ d.b < 250)

\* C4: a canvas is reported as rendered only if both its dimensions exceed 10
\* and one of its three sampled pixels is coloured; after an attempt on a
\* canvas whose samples are all near-white or transparent nothing is accepted
\* and the loop is at its next attempt (or, after the last one, times out).
C4_WhiteCanvasNotAccepted ==
    InPrint =>
        /\ (renderInfo.ok /\ renderInfo.kind = "canvas") =>
              /\ cand.kind = "canvas"
              /\ cand.width > 10 /\ cand.height > 10
              /\ SampleColoured(cand)
        /\ (cand.kind = "canvas" /\ ~SampleColoured(cand)) =>
              /\ ~renderInfo.ok
              /\ \/ ppc = "stabilize" /\ attempts >= 0 /\ attempts < maxAttempts
                 \/ attempts = -1
                 \/ pending # ""

\* the first attempt met an all-white canvas and the loop goes on
C4_Witness ==
    /\ InPrint
    /\ cand = canvas(1600, 1600, TRUE, White, NoPaint)
    /\ ppc = "stabilize"
    /\ attempts = maxAttempts - 1
    /\ ~renderInfo.ok

-----------------------------------------------------------------------------
(* Properties of the Catalog Prober                                        *)

InProbe == entry = "checkBookStatus"

Runs == 1..Len(statuses)

NonEmptyTitle(d) ==
    d.title.present /\ \E i \in 1..Len(d.title.text) : d.title.text[i] \notin Whitespace

ContainsSoonMessage(content) ==
    \E i \in 1..Len(content) :
        LowerAtom(content[i]) = "cet ouvrage sera bientot disponible"

\* C5: a run whose navigation failed or whose response was not OK returns
\* NOT_FOUND, whatever the DOM holds, and makes no DOM query.
C5_NotOkIsNotFound ==
    InProbe =>
        \A k \in Runs :
            served[k].nav # "ok" =>
                /\ statuses[k] = "NOT_FOUND"
                /\ k = runNo => inspected = {}

\* a non-OK response on a page with a removal marker, the soon message and a title
C5_Witness ==
    /\ InProbe
    /\ runNo = 1
    /\ served[1].nav = "notOk"
    /\ served[1].dom.removedVisible
    /\ ContainsSoonMessage(served[1].dom.content)
    /\ NonEmptyTitle(served[1].dom)
    /\ statuses[1] = "NOT_FOUND"

\* C6: with an OK response and a final URL that is no error route, a visible
\* .removedFlag gives REMOVED, also beside a non-empty title or the soon message.
C6_RemovedFlagIsRemoved ==
    InProbe =>
        \A k \in Runs :
            (/\ served[k].nav = "ok"
             /\ ~isErrorRoute(served[k].finalUrl)
             /\ served[k].dom.removedVisible) => statuses[k] = "REMOVED"

\* a removed book whose page still has its title and the soon message
C6_Witness ==
    /\ InProbe
    /\ runNo = 1
    /\ served[1].nav = "ok"
    /\ ~isErrorRoute(served[1].finalUrl)
    /\ served[1].dom.removedVisible
    /\ NonEmptyTitle(served[1].dom)
    /\ ContainsSoonMessage(served[1].dom.content)
    /\ statuses[1] = "REMOVED"

\* C7: with an OK response, a final URL that is no error route, no visible
\* removal marker and no visible not-available panel, a page whose content
\* holds the soon message in any case gives AVAILABLE_SOON, with or without a
\* non-empty title.
C7_SoonMessageIsAvailableSoon ==
    InProbe =>
        \A k \in Runs :
            (/\ served[k].nav = "ok"
             /\ ~isErrorRoute(served[k].finalUrl)
             /\ ~served[k].dom.removedVisible
             /\ ~served[k].dom.notAvailVisible
             /\ ContainsSoonMessage(served[k].dom.content))
                => statuses[k] = "AVAILABLE_SOON"

\* the message in capitals on a page with a title
C7_Witness ==
    /\ InProbe
    /\ runNo = 1
    /\ served[1].nav = "ok"
    /\ served[1].dom.content = <<"<html>", "CET OUVRAGE SERA BIENTOT DISPONIBLE", "</html>">>
    /\ NonEmptyTitle(served[1].dom)
    /\ statuses[1] = "AVAILABLE_SOON"

\* C8: two runs in a row on the same Page object against a catalog page that
\* served the same response, final URL and DOM both times return the same status.
C8_ProbeIdempotent ==
    (InProbe /\ runNo = 2 /\ served[1] = served[2]) => statuses[1] = statuses[2]

\* two runs on an unchanged book page, the second starting from the page the
\* first one left
C8_Witness ==
    /\ InProbe
    /\ runNo = 2
    /\ served[1] = served[2]
    /\ pg.url # AboutBlank
    /\ statuses = <<"FOUND", "FOUND">>

-----------------------------------------------------------------------------
(* Properties of the print geometry                                        *)

\* sc = 0.4 * w / 1080
ScaleIs(sc, w) ==
    /\ sc[2] > 0
    /\ sc[1] * 5 * 1080 = 2 * w * sc[2]
    /\ w = 1080 => sc = <<2, 5>>
    /\ w = 2160 => sc = <<4, 5>>

\* C9: the scale computed from a detected width w is 0.4 * w / 1080, so 0.4
\* for 1080 and 0.8 for 2160, in downloadBook (the scale handed to the print
\* call) and in printScholarVoxPageToPDF (autoScale).
C9_ScaleLinearInWidth ==
    /\ InBook => \A k \in 1..Len(pdfCalls) : ScaleIs(pdfCalls[k].scale, dims.width)
    /\ (InPrint /\ printCalls # <<>>) => ScaleIs(autoScale, pageDimensions.width)

\* downloadBook printed a book whose largest image is 2160 wide
C9_Witness ==
    /\ InBook
    /\ dims.width = 2160
    /\ Len(pdfCalls) = 1
    /\ pdfCalls[1].scale = <<4, 5>>

\* an option of v inches, v = pixels / 96
InchesAre(opt, pixels) ==
    /\ opt.unit = "in"
    /\ opt.value[2] > 0
    /\ opt.value[1] * 96 = pixels * opt.value[2]

PageSizeIs(opts, w, h) ==
    /\ InchesAre(opts.width, w)
    /\ InchesAre(opts.height, h)
    /\ (w = 1080 /\ h = 1332) =>
          (opts.width.value = <<45, 4>> /\ opts.height.value = <<111, 8>>)

\* C10: the page size handed to the print call is w/96 in by h/96 in for the
\* detected size (w, h): 11.25 in by 13.875 in for 1080 x 1332.
C10_PageSizeAt96Dpi ==
    /\ InBook =>
          \A k \in 1..Len(pdfCalls) : PageSizeIs(pdfCalls[k], dims.width, dims.height)
    /\ InPrint =>
          \A k \in 1..Len(printCalls) :
              PageSizeIs(printCalls[k], pageDimensions.width, pageDimensions.height)

\* a single page of the reference size was printed
C10_Witness ==
    /\ InPrint
    /\ pageDimensions.width = 1080 /\ pageDimensions.height = 1332
    /\ Len(printCalls) = 1
    /\ printCalls[1].width = [value |-> <<45, 4>>, unit |-> "in"]
    /\ printCalls[1].height = [value |-> <<111, 8>>, unit |-> "in"]

-----------------------------------------------------------------------------
(* Properties of downloadBook's sequence of stages                         *)

IsPrefix(s, t) == Len(s) <= Len(t) /\ s = SubSeq(t, 1, Len(s))

\* the page indices 0 .. n-1 in ascending order
Ascending(n) == [i \in 1..n |-> i - 1]

BookFailed == dpc \in {"catch", "finally", "threw"} /\ err # ""

AllStages == <<"fonts", "css", "dims", "pdf">>

\* C11: the scroll-into-view calls are issued for the indices 0, 1, ... in
\* ascending order, each index once; the next one is issued only after the
\* call and its settle delay have both resolved; font loading and the print
\* begin only when all totalPages indices have been scrolled and settled.
C11_ScrollAscending ==
    InBook =>
        /\ Len(scrolled) <= totalPages
        /\ scrolled = Ascending(Len(scrolled))
        /\ Len(scrolled) \in {idx, idx + 1}
        /\ Len(scrolled) = idx + 1 => BookFailed
        /\ (steps # <<>> \/ pdfCalls # <<>>) =>
              (idx = totalPages /\ scrolled = Ascending(totalPages))

\* both pages of a two-page book were scrolled, then the fonts loaded
C11_Witness ==
    /\ InBook
    /\ totalPages = 2
    /\ scrolled = <<0, 1>>
    /\ steps = <<"fonts">>
    /\ dpc = "css"

C13_BrowserClosedAtExit ==
    (InBook /\ dpc \in {"returned", "threw"}) => browser # "open"

-----------------------------------------------------------------------------
(* Properties of printScholarVoxPageToPDF's outcomes                       *)

\* C14: printScholarVoxPageToPDF never throws; it returns null whenever an
\* exception was raised, returns null without opening a page when there is no
\* iframe URL, and returns the buffer only after one print call that succeeded.
C14_PrintNeverThrows ==
    InPrint =>
        /\ ppc # "threw"
        /\ ppc = "returned" =>
              /\ result \in {"null", "buffer"}
              /\ pending # "" => result = "null"
              /\ iframePage = "none" => (result = "null" /\ printCalls = <<>>)
              /\ result = "buffer" =>
                    (Len(printCalls) = 1 /\ pending = "" /\ iframePage = "closed")

\* the print call failed and null came back
C14_Witness ==
    /\ InPrint
    /\ ppc = "returned"
    /\ pending = "pdf failed"
    /\ Len(printCalls) = 1
    /\ result = "null"

C16_TimeoutIsSoft ==
    (InPrint /\ attempts = -1) =>
        /\ ~renderInfo.ok
        /\ ppc # "rendered" => "lazy loader timeout" \in warnings
        /\ Len(printCalls) <= 1
        /\ (ppc = "returned" /\ pending = "") =>
              (result = "buffer" /\ Len(printCalls) = 1)

\* a capture that timed out, warned, printed once and returned the buffer
C16_Witness ==
    /\ InPrint
    /\ attempts = -1
    /\ ppc = "returned"
    /\ "lazy loader timeout" \in warnings
    /\ Len(printCalls) = 1
    /\ result = "buffer"

-----------------------------------------------------------------------------
(* Properties of the login flows                                           *)

InLogin == entry = "performInteractiveLogin"

LastCall == authCalls[Len(authCalls)]

\* C17: performInteractiveLogin returns at the first poll cycle whose result is
\* authenticated, so every earlier call was a poll cycle that failed; once
\* timeoutMs has elapsed it makes one last check, without a docid and so
\* without a reader navigation, and returns that check's result, authenticated
\* or not; the timeout never makes it throw.
C17_LoginReturnsFirstSuccessOrFinalCheck ==
    InLogin =>
        /\ \A k \in 1..(Len(authCalls) - 1) :
              ~authCalls[k].final /\ authCalls[k].authenticated = "false"
        /\ \A k \in 1..Len(authCalls) :
              IF authCalls[k].final
              THEN elapsed /\ ~authCalls[k].docid
              ELSE authCalls[k].docid = docidGiven
        /\ lpc = "returned" =>
              /\ authCalls # <<>>
              /\ loginResult = detectAuthFromCookies(jarRead)
              /\ LastCall.authenticated =
                    (IF loginResult.authenticated THEN "true" ELSE "false")
              /\ ~LastCall.final => loginResult.authenticated
              /\ ~loginResult.authenticated => LastCall.final
        /\ lpc = "threw" => wpc \in {"read", "final"}

\* a login with a docid that timed out after one failed poll cycle and
\* returned the last check's negative result
C17_Witness ==
    /\ InLogin
    /\ docidGiven
    /\ lpc = "returned"
    /\ Len(authCalls) = 2
    /\ authCalls[1] = [final |-> FALSE, docid |-> TRUE, authenticated |-> "false"]
    /\ authCalls[2] = [final |-> TRUE, docid |-> FALSE, authenticated |-> "false"]
    /\ ~loginResult.authenticated

InCesi == entry = "loginCESI"

\* the failures of the claim: a field that never became visible, a
\* navigation that never reached the platform
FieldOrNavigationFailure(e) ==
    /\ e.name = "TimeoutError"
    /\ e.message # <<>>
    /\ Head(e.message) \in {"locator.waitFor", "page.waitForURL"}

\* C20: when loginCESI throws because the email or password field never
\* became visible or because the navigation after the submit never reached
\* the platform, the error thrown is an authentication error whose message
\* holds the last URL the page was seen at.
C20_LoginErrorCarriesUrl ==
    (InCesi /\ cpc = "threw" /\ FieldOrNavigationFailure(thrown)) =>
        /\ thrown.name = "AuthenticationError"
        /\ includes(thrown.message, pageUrl)

-----------------------------------------------------------------------------
(* Properties of main                                                      *)

InMain == entry = "main"

DownloadStarted == mpc = "downloadBook" \/ dpc # "getCredentials"

\* C18: the process exits with code 1 when the identifier is empty, when
\* validateBook returns false (the status is REMOVED, NOT_FOUND or
\* AVAILABLE_SOON, or the validation threw) and when downloadBook throws; in
\* the first two cases downloadBook is never started: it starts only after
\* the probe returned FOUND.
C18_ExitCodeOne ==
    InMain =>
        /\ DownloadStarted =>
              (docid # <<>> /\ vstatus = "FOUND" /\ isValid = "true")
        /\ vstatus \in {"REMOVED", "NOT_FOUND", "AVAILABLE_SOON"} =>
              isValid \in {"false", "rejected"}
        /\ mpc # "exited" => exitCode = -1
        /\ mpc = "exited" =>
              /\ exitCode \in {0, 1}
              /\ docid = <<>> =>
                    (exitCode = 1 /\ isValid = "none" /\ ~DownloadStarted)
              /\ isValid \in {"false", "rejected"} =>
                    (exitCode = 1 /\ ~DownloadStarted)
              /\ dpc = "threw" => exitCode = 1
              /\ exitCode = 0 => dpc = "returned"

\* a book announced for later: exit code 1, downloadBook not started
C18_Witness ==
    /\ InMain
    /\ mpc = "exited"
    /\ docid = <<"88", "812", "345">>
    /\ vstatus = "AVAILABLE_SOON"
    /\ isValid = "false"
    /\ exitCode = 1
    /\ dpc = "getCredentials"

-----------------------------------------------------------------------------
(* Properties of loginCESI's submission and of the detector's domain test   *)

\* the URL's host is the platform's own
OnPlatformHost(url) ==
    /\ Len(url) >= 4
    /\ SubSeq(url, 1, 4) = <<"https://", "univ", ".", "scholarvox.com">>

\* C21: loginCESI returns normally only if, after the submit action (button
\* click or Enter), the page has navigated to a URL on the platform's own
\* domain; when the browser is still on a page of the identity provider
\* loginCESI throws, and downloadBook then never opens the reader.
C21_ReturnsOnlyOnPlatform ==
    /\ InCesi =>
          /\ cpc \in {"settle", "returned"} =>
                (submitVia \in {"click", "enter"} /\ OnPlatformHost(pageUrl))
          /\ (submitVia # "none" /\ ~OnPlatformHost(pageUrl)) =>
                (cpc \in {"catch", "threw"} /\ thrown # NoError)
    /\ (InBook /\ err = "login failed") =>
          (iframePages = <<>> /\ dpc \in {"catch", "finally", "threw"})

\* C22: the detector takes into account only the cookies whose domain, less
\* one leading dot, is the platform root domain or ends with it: the result is
\* authenticated only if such a cookie carries the session name, and matched
\* holds the names of such session cookies only; a session cookie on a domain
\* that merely contains the root domain elsewhere counts for nothing.
C22_DomainSuffixMatch ==
    Detected =>
        /\ authRes.authenticated =>
              \E i \in 1..Len(cookies) : PlatformSessionCookie(cookies[i])
        /\ \A k \in 1..Len(authRes.matched) :
              \E i \in 1..Len(cookies) :
                  /\ PlatformSessionCookie(cookies[i])
                  /\ IsPrefix(cookies[i].name \o <<"@">>, authRes.matched[k])
        /\ Len(authRes.matched) =
              Cardinality({i \in 1..Len(cookies) : PlatformSessionCookie(cookies[i])})

-----------------------------------------------------------------------------
(* Properties of waitAndDetectAuth                                          *)

SessionIn(jar) == \E i \in 1..Len(jar) : PlatformSessionCookie(jar[i])

\* a step of waitAndDetectAuth that reads the jar: a poll or the read after
\* the deadline
ReadsJar == wpc \in {"read", "final"} /\ wpc' # wpc /\ lpc' # "threw"

\* C23: waitAndDetectAuth reads the cookie jar afresh on every poll and once
\* more after the deadline, and its result is the detector's verdict on the
\* cookies read last: a session cookie that appeared during polling is
\* detected at the next poll, a negative result comes only from the read after
\* the deadline when that read has no session cookie, and no result is
\* returned without a read, also when the polling loop never runs.
C23_VerdictOnFreshCookies ==
    [][InLogin =>
          /\ ReadsJar =>
                /\ jarRead' = cookies
                /\ authRes' = detectAuthFromCookies(cookies)
                /\ authRes'.authenticated = SessionIn(cookies)
                /\ wpc' = "done" <=> (wpc = "final" \/ SessionIn(cookies))
          /\ (wpc # "done" /\ wpc' = "done") =>
                /\ ReadsJar
                /\ ~authRes'.authenticated =>
                      (wpc = "final" /\ ~SessionIn(jarRead'))
          /\ wpc = "done" =>
                /\ jarRead' = jarRead /\ authRes' = authRes
                /\ lpc' = "returned" => loginResult' = authRes
    ]_vars

\* a call whose first poll found no session cookie and whose second poll
\* found the one stored meanwhile
C23_Witness ==
    /\ InLogin
    /\ wpc = "done"
    /\ polls = 2
    /\ authRes.authenticated
    /\ jarRead = cookies
    /\ SessionIn(jarRead)

-----------------------------------------------------------------------------
(* Properties of the Catalog Prober's rules                                 *)

RemovalMessage == <<"cet ouvrage n'est plus disponible">>

\* the removed-marker element's text holds the removal message, in any case
HasRemovalText(d) == includes(toLowerCase(d.removedText), RemovalMessage)

\* C24: with an OK response and a final URL that is no error route, the
\* status is REMOVED when the removed-marker element's text matches the
\* removal message, in any case, also when that element is not visible.
C24_RemovalTextIsRemoved ==
    InProbe =>
        \A k \in Runs :
            (/\ served[k].nav = "ok"
             /\ ~isErrorRoute(served[k].finalUrl)
             /\ HasRemovalText(served[k].dom)) => statuses[k] = "REMOVED"

BookStatus == {"FOUND", "REMOVED", "AVAILABLE_SOON", "NOT_FOUND"}

\* the status of the first rule that matches what the platform served
FirstRule(r) ==
    CASE r.nav # "ok" -> "NOT_FOUND"
      [] r.nav = "ok" /\ isErrorRoute(r.finalUrl) -> "NOT_FOUND"
      [] OTHER ->
           CASE r.dom.removedVisible -> "REMOVED"
             [] ~r.dom.removedVisible /\ r.dom.notAvailVisible -> "REMOVED"
             [] /\ ~r.dom.removedVisible /\ ~r.dom.notAvailVisible
                /\ ContainsSoonMessage(r.dom.content) -> "AVAILABLE_SOON"
             [] /\ ~r.dom.removedVisible /\ ~r.dom.notAvailVisible
                /\ ~ContainsSoonMessage(r.dom.content)
                /\ NonEmptyTitle(r.dom) -> "FOUND"
             [] OTHER -> "NOT_FOUND"

-----------------------------------------------------------------------------
(* Properties of the Render Stabilizer's loop                               *)

AreaThreshold == 1500 * 1500

\* width, height and area of an element in pixels: intrinsic for an image,
\* the bitmap for a canvas, the bounding box for a div
PixelWidth(el) == IF el.kind = "img" THEN el.naturalWidth ELSE el.width

PixelHeight(el) == IF el.kind = "img" THEN el.naturalHeight ELSE el.height

PixelArea(el) == PixelWidth(el) * PixelHeight(el)

\* the images, canvases and background-image divs of the page
PageContent(d) ==
    { d.images[i] : i \in 1..Len(d.images) }
      \cup (IF d.canvas.kind = "canvas" THEN {d.canvas} ELSE {})
      \cup (IF d.div.kind = "div" /\ d.div.backgroundImage \notin {"", "none"}
            THEN {d.div} ELSE {})

LargeContent(d) == { el \in PageContent(d) : PixelArea(el) > AreaThreshold }

\* el is a largest-area candidate of the page, or nothing when there is none
IsLargestCandidate(el, d) ==
    IF LargeContent(d) = {} THEN el = NoElement
    ELSE /\ el \in LargeContent(d)
         /\ \A o \in LargeContent(d) : PixelArea(o) <= PixelArea(el)

\* the result reports el as rendered
ReportsElement(info, el) ==
    /\ info.ok
    /\ info.kind = el.kind
    /\ info.width = PixelWidth(el)
    /\ info.height = PixelHeight(el)

\* one step of the stabilizer, as the claim has it
StabilizerStep ==
    /\ (ppc # "stabilize" /\ ppc' = "stabilize") => attempts' = 30
    /\ (ppc = "stabilize" /\ ppc' = "stabilize") =>
          /\ attempts > 0 /\ attempts' = attempts - 1
          /\ IsLargestCandidate(cand', dom')
          /\ ~validate(cand').ok
          /\ ~renderInfo'.ok
    /\ (ppc = "stabilize" /\ ppc' = "rendered") =>
          \/ /\ attempts > 0
             /\ IsLargestCandidate(cand', dom')
             /\ validate(cand').ok
             /\ ReportsElement(renderInfo', cand')
          \/ /\ attempts = 0
             /\ ~renderInfo'.ok
             /\ UNCHANGED <<cand, dom>>
    /\ renderInfo.ok => (renderInfo'.ok /\ ppc' # "stabilize")

\* C26: the stabilizer's loop makes at most 30 attempts; each attempt picks
\* the largest-area candidate among the images, canvases and background-image
\* divs above the 1500 x 1500 area threshold; the loop stops at the first
\* attempt whose candidate passes validation, reporting ok with that
\* candidate's kind and pixel dimensions, and otherwise reports ok = false
\* after exactly 30 attempts; it always terminates.
C26_StabilizerBounded ==
    /\ [](InPrint => attempts \in -1..30)
    /\ [][InPrint => StabilizerStep]_vars
    /\ (InPrint /\ ppc = "stabilize") ~> (ppc # "stabilize")

\* an attempt that met an image still loading, a canvas and a background div,
\* all above the threshold, and accepted the div, the largest of the three
C26_Witness ==
    /\ InPrint
    /\ ppc = "rendered"
    /\ dom.images = <<img(2160, 2664, FALSE)>>
    /\ dom.canvas = canvas(1600, 1600, TRUE, White, px(800, 800, Black))
    /\ cand = div(2800, 2100, "url(p1.png)")
    /\ renderInfo = [ok |-> TRUE, kind |-> "div", width |-> 2800, height |-> 2100]

-----------------------------------------------------------------------------
(* Properties of the content size and of the scale                          *)

\* C27: whenever the stabilizer accepted a candidate of pixel dimensions
\* (w, h), image, canvas or background div, the page size handed to the print
\* call is w/96 in by h/96 in and the computed scale is 0.4 * w / 1080.
C27_GeometryFromAcceptedCandidate ==
    (InPrint /\ renderInfo.ok) =>
        \A k \in 1..Len(printCalls) :
            /\ PageSizeIs(printCalls[k], renderInfo.width, renderInfo.height)
            /\ ScaleIs(autoScale, renderInfo.width)

\* the images with a positive intrinsic width and height
PositiveImages(d) ==
    { d.images[i] : i \in 1..Len(d.images) } \cap
        { el \in { d.images[i] : i \in 1..Len(d.images) } :
            el.naturalWidth > 0 /\ el.naturalHeight > 0 }

\* sz is the content size of the page d: the intrinsic size of a largest-area
\* image when some image has a positive intrinsic size; otherwise the
\* bounding box of the page-like element; otherwise the viewport
IsContentSize(sz, d) ==
    IF PositiveImages(d) # {}
    THEN \E el \in PositiveImages(d) :
            /\ \A o \in PositiveImages(d) : PixelArea(o) <= PixelArea(el)
            /\ sz.width = el.naturalWidth /\ sz.height = el.naturalHeight
    ELSE IF d.pageElement.kind = "rect"
    THEN sz.width = d.pageElement.width /\ sz.height = d.pageElement.height
    ELSE sz.width = 2800 /\ sz.height = 2100

\* C28: the content size used for printing is the intrinsic size of the
\* largest-area image when some image has a positive intrinsic width and
\* height, otherwise the bounding box of a generic page-like element,
\* otherwise the viewport size, in the single-page capture and in the
\* whole-book capture alike.
C28_ContentSizePriority ==
    [][/\ (InPrint /\ ppc = "dims" /\ ppc' = "pdf") =>
              IsContentSize(pageDimensions', dom)
       /\ (InBook /\ dpc = "dims" /\ dpc' = "pdf") =>
              IsContentSize(dims', dom)
    ]_vars

C30_SmallPagesNeverRendered ==
    InPrint =>
        /\ renderInfo.ok =>
              /\ cand.kind \in {"img", "canvas", "div"}
              /\ PixelArea(cand) > 2250000
              /\ renderInfo.width * renderInfo.height > 2250000
        /\ (ppc = "stabilize" /\ attempts < maxAttempts /\ LargeContent(dom) = {}) =>
              (cand = NoElement /\ ~renderInfo.ok)
        /\ (attempts = -1 /\ ppc = "rendered") => ~renderInfo.ok

\* the thirtieth attempt met the fully loaded 1080 x 1332 image and the loop
\* timed out
C30_Witness ==
    /\ InPrint
    /\ ppc = "rendered"
    /\ attempts = -1
    /\ dom.images = <<img(1080, 1332, TRUE)>>
    /\ dom.canvas = NoElement /\ dom.div = NoElement
    /\ cand = NoElement
    /\ ~renderInfo.ok

=============================================================================
